---- MODULE Spec2Model ----
(***************************************************************************)
(* The curated-collection section of the PSP game explorer: the genre tabs,*)
(* the paged grid of placeholders, one resolution pipeline per curated     *)
(* entry (slug lookup, then title search), and the memoizing API client    *)
(* the pipelines call.                                                     *)
(*                                                                         *)
(* One step of the model is one browser task: a click handler or the       *)
(* completion of one fetch, together with every continuation (microtask)   *)
(* that runs before the next task can start.                               *)
(***************************************************************************)
EXTENDS Integers, Sequences, FiniteSets, TLC

----------------------------------------------------------------------------
(* Bounds of the model.                                                    *)

\* Entries per page.  UIManager's constructor sets 8; the model scales the
\* page size and the catalogue down together, so that a genre still has a
\* full first page and a partial last page.
gamesPerPage == 2

\* displayCuratedGamesForGenre calls that may be awaiting their Promise.all
\* at the same time.
MaxLive == 2

\* Clicks (on a genre tab, Previous or Next) in one run.
MaxClicks == 2

\* Clicks in one run when every response is a success (SpecNav).
MaxNavClicks == 3

\* Clicks in one run when every request is answered in the end (SpecFair).
MaxFairClicks == 1

\* Clicks in one run over an unchanged dataset (SpecTwice).
MaxTwiceClicks == 2

\* AnalyticsManager.config.batchSize (10 in the source).
batchSize == 2

\* The events sendEvents keeps in the local store (1000 in the source).
maxStoredEvents == 3

\* Events tracked and sync events handled in one run (SpecAnalytics).
MaxEvents == 7
MaxSyncs == 3

\* Games, ratings and calls of CollectionManager in one run.
MaxGameId == 2
MaxRating == 1
MaxOps == 3

\* Searches handleSearchInput issues in one run.
MaxSearches == 2

\* Longest string handed to levenshteinDistance and findBestMatch when they
\* are studied on their own.
MaxLen == 3

\* Longest candidate list handed to findBestMatch when it is studied on its
\* own.
MaxResults == 2

\* Advances of the clock, and calls of makeRequest, in one run when the memo
\* cache is studied on its own.
MaxTicks == 3

MaxRequests == 3

\* Longest list of games paged through when the paging is studied on its own.
MaxGames == 5

\* NotificationManager.maxNotifications (5 in the code).
maxNotifications == 2

\* The show calls of a run.
MaxShown == 4

\* The remove timers pending at a time that clicks, keys and calls set.
MaxPending == 2

\* Largest value stored and largest ttl (in ms) handed to StorageManager.set.
MaxValue == 2

MaxTtl == 2

\* The times the clock is advanced while the storage is studied.
MaxWaits == 3

\* The fetch events the service worker handles in a run.
MaxFetches == 3

----------------------------------------------------------------------------
(* Strings are sequences of one-character strings.                         *)

toLowerCase(s) ==
    [k \in 1..Len(s) |->
        CASE s[k] = "A" -> "a"
          [] s[k] = "B" -> "b"
          [] OTHER -> s[k]]

toUpperCase(s) ==
    [k \in 1..Len(s) |->
        CASE s[k] = "a" -> "A"
          [] s[k] = "b" -> "B"
          [] OTHER -> s[k]]

Min2(x, y) == IF x <= y THEN x ELSE y

Min3(x, y, z) == Min2(Min2(x, y), z)

RECURSIVE fillRow(_, _, _, _)
\* Row j of the matrix, left to right.  row holds matrix[j][0..i-1] and
\* prev holds matrix[j-1]; both are indexed from 1, so column i is at i + 1.
fillRow(a, bj, prev, row) ==
    IF Len(row) = Len(a) + 1 THEN row
    ELSE LET i == Len(row)
             indicator == IF a[i] = bj THEN 0 ELSE 1
         IN fillRow(a, bj, prev,
                    Append(row, Min3(row[i] + 1,            \* deletion
                                     prev[i + 1] + 1,       \* insertion
                                     prev[i] + indicator))) \* substitution

RECURSIVE fillMatrix_noFirstColumn(_, _, _, _)
\* Mutant: column 0 of the rows below the first is left at 0.
fillMatrix_noFirstColumn(a, b, j, prev) ==
    IF j > Len(b) THEN prev
    ELSE fillMatrix_noFirstColumn(a, b, j + 1, fillRow(a, b[j], prev, <<0>>))

RECURSIVE fillMatrix(_, _, _, _)
\* Rows j..Len(b) of the matrix, given row j - 1; the value is the last row.
fillMatrix(a, b, j, prev) ==
    IF j > Len(b) THEN prev
    ELSE fillMatrix(a, b, j + 1, fillRow(a, b[j], prev, <<j>>))

levenshteinDistance(a, b) ==
    fillMatrix(a, b, 1, [i \in 1..(Len(a) + 1) |-> i - 1])[Len(a) + 1]

----------------------------------------------------------------------------
(* The curated catalogue (services/CuratedGames.js).                       *)

NoData == [slug |-> <<>>, name |-> <<>>]

TitlePool ==
    << <<"A", "b">>, <<"B", "a", "b">>, <<"a", "a">>, <<"B", "B">>,
       <<"b", "A", "a">>, <<"A">> >>

CuratedEntry(n) ==
    [title |-> TitlePool[n], slug |-> toLowerCase(TitlePool[n]) \o <<"-">>]

curatedGames ==
    [g \in {"Action", "RPG"} |->
        IF g = "Action"
        THEN [link  |-> "backloggd/action",
              games |-> [n \in 1..(gamesPerPage + 1) |-> CuratedEntry(n)]]
        ELSE [link  |-> "backloggd/rpg",
              games |-> <<CuratedEntry(gamesPerPage + 2)>>]]

curatedGenres == <<"Action", "RPG">>

Genres == {curatedGenres[k] : k \in 1..Len(curatedGenres)}

AllEntries ==
    UNION {{curatedGames[g].games[k] : k \in 1..Len(curatedGames[g].games)}
           : g \in Genres}

\* Math.ceil(allGameObjects.length / this.gamesPerPage)
pageCount(allGameObjects) ==
    (Len(allGameObjects) + gamesPerPage - 1) \div gamesPerPage

totalPagesOf(genre) == pageCount(curatedGames[genre].games)

----------------------------------------------------------------------------
(* The external games API, as far as the pipelines see it.                 *)

\* formatGameData of the record the API holds under a slug.
RecordOf(slug) == [slug |-> slug, name |-> SubSeq(slug, 1, Len(slug) - 1)]

FarRecord == [slug |-> <<"-", "-">>, name |-> <<"-", "-", "-", "-">>]

\* formatGameData of the results the API holds for a title search: for the
\* first title two records whose names differ from it in case only, behind
\* an unrelated one; for the third title nothing; for any other title a
\* near miss behind an unrelated record.
SearchResults(title) ==
    LET upper == [slug |-> <<"u">> \o toLowerCase(title),
                  name |-> toUpperCase(title)]
        lower == [slug |-> <<"l">> \o toLowerCase(title),
                  name |-> toLowerCase(title)]
        near  == [slug |-> <<"n">> \o toLowerCase(title),
                  name |-> toLowerCase(title) \o <<"-">>]
    IN CASE title = TitlePool[1] -> <<FarRecord, upper, lower>>
         [] title = TitlePool[3] -> <<>>
         [] OTHER -> <<FarRecord, near>>

GameURL(slug)    == <<"games/", slug>>
ShotsURL(slug)   == <<"games/screenshots", slug>>
SearchURL(title) == <<"games?search", title>>

AllURLs ==
    UNION {{GameURL(e.slug), ShotsURL(e.slug), SearchURL(e.title)}
           : e \in AllEntries}

----------------------------------------------------------------------------
(* CollectionManager and SearchManager as constructed.                     *)

\* Object.keys(this.collectionTypes), in the order of the literal.
collectionTypes ==
    <<"owned", "wishlist", "completed", "playing", "dropped", "favorites",
      "backlog">>

CollectionTypes == {collectionTypes[k] : k \in 1..Len(collectionTypes)}

initializeEmptyCollections == [type \in CollectionTypes |-> <<>>]

\* #search-results before anything is shown in it.
EmptyState == [kind |-> "empty", query |-> <<>>, games |-> <<>>]

NoTimeout == [set |-> FALSE, value |-> <<>>]

\* sw.js STATIC_ASSETS, which the install handler caches: the page, a
\* script and an icon stand for the twenty files listed.
STATIC_ASSETS == {"/", "/js/app.js", "/assets/icons/icon-192x192.png"}

----------------------------------------------------------------------------
(* UIManager.findBestMatch                                                 *)

NoMatch == NoData

RECURSIVE firstLowest_lastOnTie(_, _, _)
\* Mutant: of several candidates with the lowest score the last one wins.
firstLowest_lastOnTie(scores, k, best) ==
    IF k > Len(scores) THEN best
    ELSE firstLowest_lastOnTie(scores, k + 1,
                               IF scores[k] <= scores[best] THEN k ELSE best)

RECURSIVE firstLowest(_, _, _)
\* scoredResults[0] after the (stable) sort by ascending score: the first of
\* the candidates k..Len(scores) with the lowest score, given the best so far.
firstLowest(scores, k, best) ==
    IF k > Len(scores) THEN best
    ELSE firstLowest(scores, k + 1,
                     IF scores[k] < scores[best] THEN k ELSE best)

RECURSIVE find_last(_, _, _)
\* Mutant: the last position that holds the target, not the first.
find_last(names, target, k) ==
    IF k > Len(names) THEN 0
    ELSE LET later == find_last(names, target, k + 1)
         IN IF later # 0 THEN later
            ELSE IF names[k] = target THEN k ELSE 0

RECURSIVE find(_, _, _)
\* Array.prototype.find over the lower-cased names: the first position from
\* k on that holds the target, 0 if there is none.
find(names, target, k) ==
    IF k > Len(names) THEN 0
    ELSE IF names[k] = target THEN k
    ELSE find(names, target, k + 1)

findBestMatchOf(normalizedTarget, targetLength, results, names) ==
    LET exactMatch == find(names, normalizedTarget, 1)
    IN IF exactMatch # 0 THEN results[exactMatch]
       ELSE LET scores == [k \in 1..Len(results) |->
                             levenshteinDistance(normalizedTarget, names[k])]
                best == firstLowest(scores, 2, 1)
            IN IF 2 * scores[best] < targetLength
               THEN results[best]
               ELSE NoMatch

\* Mutant: the candidates' names are compared without lower-casing them.
findBestMatch_caseSensitive(targetTitle, results) ==
    IF Len(results) = 0 THEN NoMatch
    ELSE findBestMatchOf(toLowerCase(targetTitle), Len(targetTitle), results,
                         [k \in 1..Len(results) |-> results[k].name])

findBestMatch(targetTitle, results) ==
    IF Len(results) = 0 THEN NoMatch
    ELSE findBestMatchOf(toLowerCase(targetTitle), Len(targetTitle), results,
                         [k \in 1..Len(results) |-> toLowerCase(results[k].name)])

----------------------------------------------------------------------------
(* State.                                                                  *)

VARIABLES
    activeCuratedTab,    \* UIManager.activeCuratedTab
    currentPageByGenre,  \* UIManager.currentPageByGenre
    tabs,                \* #curated-tabs-container: the buttons and their class
    grid,                \* #curated-games-grid: its child elements in order
    link,                \* #curated-link-container
    pagination,          \* #curated-pagination and the handlers on its buttons
    calls,               \* the displayCuratedGamesForGenre calls in flight
    cache,               \* GameAPI.cache
    now,                 \* Date.now()
    clicks,              \* clicks handled so far
    rets,                \* what fetchCuratedGameData returned in this task
    args,                \* the arguments of a function or API call under study
    out,                 \* what that call has returned so far
    eventQueue,          \* AnalyticsManager.eventQueue
    storedEvents,        \* localStorage psp_analytics_events
    requests,            \* the requests the analytics code has handed to fetch
    tracked,             \* events tracked so far
    synced,              \* sync-analytics events the service worker has handled
    collections,         \* CollectionManager.collections
    stats,               \* CollectionManager.stats
    currentQuery,        \* SearchManager.currentQuery
    searchResults,       \* SearchManager.searchResults
    resultsContainer,    \* #search-results
    timeout,             \* the pending timer of the debounced input handler
    searches,            \* the searchGames calls of handleSearchInput in flight
    notifications,       \* NotificationManager.notifications, in insertion order
    queue,               \* NotificationManager.queue
    autoTimers,          \* ids whose auto-remove timer is pending
    removals,            \* the pending timers of remove, in the order set
    closed,              \* how often onClose was called, by notification id
    displayed,           \* the notifications displayed so far, in order
    shown,               \* the number of show calls so far
    localStorage,        \* window.localStorage
    caches,              \* the URLs with a response in the Cache Storage
    fetches              \* the service worker's fetches in flight

analyticsVars  == <<eventQueue, storedEvents, requests, tracked, synced>>
collectionVars == <<collections, stats>>
searchVars     == <<currentQuery, searchResults, resultsContainer, timeout,
                    searches>>
notificationVars == <<notifications, queue, autoTimers, removals, closed,
                      displayed, shown>>
storageVars    == <<localStorage>>
workerVars     == <<caches, fetches>>
serviceVars    == <<notificationVars, storageVars, workerVars>>
appVars        == <<analyticsVars, collectionVars, searchVars, serviceVars>>

vars == <<activeCuratedTab, currentPageByGenre, tabs, grid, link, pagination,
          calls, cache, now, clicks, rets, args, out,
          appVars>>

\* 15 minutes
cacheExpiry == 15 * 60 * 1000

\* An entry holds its data as a one-element sequence; no entry holds none.
NoEntry   == [data |-> <<>>, timestamp |-> -1]
Free      == [genre |-> "none"]
NoPagination == [genre |-> "none", page |-> 0, total |-> 0]
NoArgs    == [op |-> "none"]
NoOut     == [op |-> "none"]

\* The elements the grid can hold.
createGameCardPlaceholderHTML(id) ==
    [kind |-> "skeleton", id |-> id, title |-> <<>>, slug |-> <<>>]

createGameCardSearchingHTML(id, title) ==
    [kind |-> "searching", id |-> id, title |-> title, slug |-> <<>>]

createGameCardNotFoundHTML(title) ==
    [kind |-> "notfound", id |-> -1, title |-> title, slug |-> <<>>]

createGameCardHTMLFromData(game, displayTitle) ==
    [kind |-> "card", id |-> -1, title |-> displayTitle, slug |-> game.slug]

\* Mutant: the first element that still carries a placeholder id is taken,
\* whatever the id.
querySelector_anyPlaceholder(g, id) ==
    LET hits == {k \in 1..Len(g) : g[k].id >= 0}
    IN IF hits = {} THEN 0 ELSE CHOOSE k \in hits : \A m \in hits : k <= m

\* querySelector('[data-placeholder-id="id"]'): the position of the first
\* element carrying the attribute with that value, 0 for null.
querySelector(g, id) ==
    LET hits == {k \in 1..Len(g) : g[k].id = id}
    IN IF hits = {} THEN 0 ELSE CHOOSE k \in hits : \A m \in hits : k <= m

\* The mutable state a handler works on.
World ==
    [tab |-> activeCuratedTab, cur |-> currentPageByGenre, tabs |-> tabs,
     grid |-> grid, link |-> link, pag |-> pagination, calls |-> calls,
     cache |-> cache, rets |-> {}]

\* The record of the results fetchCuratedGameData has returned so far, kept
\* where a run is to be compared with an earlier one: each result with its
\* entry, whether the tab was switched under its call, whether it waited for
\* a response, and the number of times its entry has been resolved.
resolved(o, rs) ==
    IF o.op # "resolved" THEN o
    ELSE [o EXCEPT !.seen = @ \cup
            {[entry |-> r.entry, genre |-> r.genre, status |-> r.status,
              slug |-> r.data.slug, switched |-> r.switched,
              awaited |-> calls[r.call].genre # "none",
              nth |-> 1 + Cardinality({h \in o.seen : h.entry = r.entry})]
             : r \in rs}]

Commit(w) ==
    /\ activeCuratedTab' = w.tab
    /\ currentPageByGenre' = w.cur
    /\ tabs' = w.tabs
    /\ grid' = w.grid
    /\ link' = w.link
    /\ pagination' = w.pag
    /\ calls' = w.calls
    /\ cache' = w.cache
    /\ rets' = w.rets
    /\ args' = args
    /\ out' = resolved(out, w.rets)
    /\ UNCHANGED appVars

----------------------------------------------------------------------------
(* GameAPI.makeRequest: the memo cache.                                    *)

\* Mutant: an entry that is exactly cacheExpiry old still counts as fresh.
cacheHit_inclusive(c, url) ==
    /\ c[url].timestamp >= 0
    /\ now - c[url].timestamp <= cacheExpiry

\* this.cache.has(cacheKey) and Date.now() - cached.timestamp < cacheExpiry
cacheHit(c, url) ==
    /\ c[url].timestamp >= 0
    /\ now - c[url].timestamp < cacheExpiry

\* this.cache.set(cacheKey, {data, timestamp: Date.now()})
cacheSet(c, url, data) ==
    [c EXCEPT ![url] = [data |-> <<data>>, timestamp |-> now]]

\* cached.data
cacheGet(c, url) == c[url].data[1]

----------------------------------------------------------------------------
(* UIManager.renderCuratedPagination, and the tail of                      *)
(* displayCuratedGamesForGenre that calls it.                              *)

renderCuratedPagination(genre, currentPage, totalPages) ==
    IF totalPages <= 1
    THEN NoPagination
    ELSE [genre |-> genre, page |-> currentPage, total |-> totalPages]

hasPrev(p) == p.genre # "none" /\ p.page > 1
\* Mutant: the Next button is also shown on the last page.
hasNext_onLastPage(p) == p.genre # "none" /\ p.page <= p.total

hasNext(p) == p.genre # "none" /\ p.page < p.total

IsFree(c) == c.genre = "none"

\* A pipeline whose callback has returned: its locals are gone.
donePipe(gameObject) ==
    [entry |-> gameObject, pc |-> "done", game |-> NoData,
     slug |-> "done", search |-> "done", results |-> <<>>,
     slugCalls |-> 0, searchCalls |-> 0]

\* Promise.all resolves once every entry's callback has returned; the call
\* then renders the pagination controls and ends.
promiseAll(w, s) ==
    LET c == w.calls[s]
    IN IF \A k \in 1..Len(c.pipes) : c.pipes[k].pc = "done"
       THEN [w EXCEPT !.pag = renderCuratedPagination(c.genre, c.page,
                                                      totalPagesOf(c.genre)),
                      !.calls[s] = Free]
       ELSE w

\* Mutant: a placeholder is left alone while a sibling's slug lookup has failed.
patchPlaceholder_unlessSiblingFailed(w, s, i, result) ==
    LET c == w.calls[s]
        gameObject == c.pipes[i].entry
        placeholderId == c.startIndex + (i - 1)
        pos == querySelector(w.grid, placeholderId)
        patch == /\ w.tab = c.genre /\ pos # 0
                 /\ \A k \in 1..Len(c.pipes) :
                       k = i \/ c.pipes[k].slug # "failed"
        finalHTML == IF result.status = "found"
                     THEN createGameCardHTMLFromData(result.data,
                                                     gameObject.title)
                     ELSE createGameCardNotFoundHTML(gameObject.title)
        ret == [call |-> s, genre |-> c.genre, page |-> c.page, index |-> i,
                pos |-> pos, game |-> c.pipes[i].game,
                entry |-> gameObject, placeholderId |-> placeholderId,
                status |-> result.status, data |-> result.data,
                slug |-> c.pipes[i].slug, search |-> c.pipes[i].search,
                results |-> c.pipes[i].results,
                slugCalls |-> c.pipes[i].slugCalls,
                searchCalls |-> c.pipes[i].searchCalls,
                tab |-> w.tab, switched |-> c.switched,
                before |-> IF pos = 0 THEN "absent" ELSE w.grid[pos].kind,
                beforeTitle |-> IF pos = 0 THEN <<>> ELSE w.grid[pos].title,
                patched |-> patch]
    IN [w EXCEPT !.grid = IF patch THEN [@ EXCEPT ![pos] = finalHTML] ELSE @,
                 !.calls[s].pipes[i] = donePipe(gameObject),
                 !.rets = @ \cup {ret}]

\* The callback of displayCuratedGamesForGenre that receives the result of
\* fetchCuratedGameData for entry i of call s.
patchPlaceholder(w, s, i, result) ==
    LET c == w.calls[s]
        gameObject == c.pipes[i].entry
        placeholderId == c.startIndex + (i - 1)
        pos == querySelector(w.grid, placeholderId)
        patch == w.tab = c.genre /\ pos # 0
        finalHTML == IF result.status = "found"
                     THEN createGameCardHTMLFromData(result.data,
                                                     gameObject.title)
                     ELSE createGameCardNotFoundHTML(gameObject.title)
        ret == [call |-> s, genre |-> c.genre, page |-> c.page, index |-> i,
                pos |-> pos, game |-> c.pipes[i].game,
                entry |-> gameObject, placeholderId |-> placeholderId,
                status |-> result.status, data |-> result.data,
                slug |-> c.pipes[i].slug, search |-> c.pipes[i].search,
                results |-> c.pipes[i].results,
                slugCalls |-> c.pipes[i].slugCalls,
                searchCalls |-> c.pipes[i].searchCalls,
                tab |-> w.tab, switched |-> c.switched,
                before |-> IF pos = 0 THEN "absent" ELSE w.grid[pos].kind,
                beforeTitle |-> IF pos = 0 THEN <<>> ELSE w.grid[pos].title,
                patched |-> patch]
    IN [w EXCEPT !.grid = IF patch THEN [@ EXCEPT ![pos] = finalHTML] ELSE @,
                 !.calls[s].pipes[i] = donePipe(gameObject),
                 !.rets = @ \cup {ret}]

returnResult(w, s, i, result) == promiseAll(patchPlaceholder(w, s, i, result), s)

----------------------------------------------------------------------------
(* UIManager.fetchCuratedGameData, stage by stage.                         *)

Aborted  == [status |-> "aborted", data |-> NoData]
NotFound == [status |-> "not_found", data |-> NoData]
Found(data) == [status |-> "found", data |-> data]

\* this.activeCuratedTab !== currentGenre
tabChanged(w, s) == w.tab # w.calls[s].genre

\* Mutant: the search error is thrown on to the caller.
searchFailed_rethrows(w, s, i) ==
    returnResult([w EXCEPT !.calls[s].pipes[i].search = "failed"], s, i,
                 [status |-> "threw", data |-> NoData])

\* catch (searchError): log, fall out of the try, return not_found.
searchFailed(w, s, i) ==
    returnResult([w EXCEPT !.calls[s].pipes[i].search = "failed"], s, i, NotFound)

\* Mutant: after searchGames has returned the pipeline never settles.
searchReturned_hangs(w, s, i, games) ==
    [w EXCEPT !.calls[s].pipes[i].search = "ok",
              !.calls[s].pipes[i].results = games,
              !.calls[s].pipes[i].pc = "hung"]

\* After searchGames has returned: the tab check, then findBestMatch.
searchReturned(w, s, i, games) ==
    LET w1 == [w EXCEPT !.calls[s].pipes[i].search = "ok",
                        !.calls[s].pipes[i].results = games]
        bestMatch == findBestMatch(w.calls[s].pipes[i].entry.title, games)
    IN IF tabChanged(w1, s) THEN returnResult(w1, s, i, Aborted)
       ELSE IF bestMatch # NoMatch THEN returnResult(w1, s, i, Found(bestMatch))
       ELSE returnResult(w1, s, i, NotFound)

\* GameAPI.searchGames(title, {pageSize: 5, platforms: '17'})
searchGames(w, s, i) ==
    LET url == SearchURL(w.calls[s].pipes[i].entry.title)
        w1 == [w EXCEPT !.calls[s].pipes[i].searchCalls = @ + 1,
                        !.calls[s].pipes[i].search = "pending"]
    IN IF cacheHit(w1.cache, url)
       THEN searchReturned(w1, s, i, cacheGet(w1.cache, url))
       ELSE [w1 EXCEPT !.calls[s].pipes[i].pc = "search"]

\* Stage 2: show the searching card in the placeholder, then search.
fallbackSearch(w, s, i) ==
    LET c == w.calls[s]
        placeholderId == c.startIndex + (i - 1)
        pos == querySelector(w.grid, placeholderId)
        w1 == [w EXCEPT !.grid =
                 IF pos # 0
                 THEN [@ EXCEPT ![pos] = createGameCardSearchingHTML(
                                   placeholderId, c.pipes[i].entry.title)]
                 ELSE @]
    IN searchGames(w1, s, i)

\* Mutant: a successful slug lookup does not return and runs on into stage 2.
slugReturned_fallsThrough(w, s, i, gameData) ==
    LET w1 == [w EXCEPT !.calls[s].pipes[i].slug = "ok"]
    IN IF tabChanged(w1, s) THEN returnResult(w1, s, i, Aborted)
       ELSE fallbackSearch(w1, s, i)

\* After getGameDetails has returned: the tab check, then found.
slugReturned(w, s, i, gameData) ==
    LET w1 == [w EXCEPT !.calls[s].pipes[i].slug = "ok"]
    IN IF tabChanged(w1, s) THEN returnResult(w1, s, i, Aborted)
       ELSE returnResult(w1, s, i, Found(gameData))

\* GameAPI.getGameDetails, second request: the screenshots.
getScreenshots(w, s, i) ==
    LET p == w.calls[s].pipes[i]
    IN IF cacheHit(w.cache, ShotsURL(p.entry.slug))
       THEN slugReturned(w, s, i, p.game)
       ELSE [w EXCEPT !.calls[s].pipes[i].pc = "shots"]

\* Mutant: a game found in the cache is returned without its screenshots
\* being requested.
getGameDetails_cachedSkipsScreenshots(w, s, i) ==
    LET url == GameURL(w.calls[s].pipes[i].entry.slug)
        w1 == [w EXCEPT !.calls[s].pipes[i].slugCalls = @ + 1]
    IN IF cacheHit(w1.cache, url)
       THEN slugReturned(w1, s, i, cacheGet(w1.cache, url))
       ELSE [w1 EXCEPT !.calls[s].pipes[i].pc = "details"]

\* GameAPI.getGameDetails, first request: the game itself.
getGameDetails(w, s, i) ==
    LET url == GameURL(w.calls[s].pipes[i].entry.slug)
        w1 == [w EXCEPT !.calls[s].pipes[i].slugCalls = @ + 1]
    IN IF cacheHit(w1.cache, url)
       THEN getScreenshots(
              [w1 EXCEPT !.calls[s].pipes[i].game = cacheGet(w1.cache, url)], s, i)
       ELSE [w1 EXCEPT !.calls[s].pipes[i].pc = "details"]

\* Mutant: a failed slug lookup is tried once more before the search.
slugFailed_retries(w, s, i) ==
    IF w.calls[s].pipes[i].slugCalls < 2
    THEN getGameDetails(w, s, i)
    ELSE fallbackSearch([w EXCEPT !.calls[s].pipes[i].slug = "failed"], s, i)

\* catch (slugError): warn and go on to stage 2.
slugFailed(w, s, i) ==
    fallbackSearch([w EXCEPT !.calls[s].pipes[i].slug = "failed"], s, i)

fetchCuratedGameData(w, s, i) == getGameDetails(w, s, i)

----------------------------------------------------------------------------
(* UIManager.displayCuratedGamesForGenre, up to the Promise.all.           *)

\* Mutant: the element at endIndex is taken too.
slice_inclusiveEnd(arr, startIndex, endIndex) ==
    LET last == Min2(endIndex + 1, Len(arr))
    IN IF startIndex >= last THEN <<>>
       ELSE [k \in 1..(last - startIndex) |-> arr[startIndex + k]]

\* Array.prototype.slice(startIndex, endIndex)
slice(arr, startIndex, endIndex) ==
    LET last == Min2(endIndex, Len(arr))
    IN IF startIndex >= last THEN <<>>
       ELSE [k \in 1..(last - startIndex) |-> arr[startIndex + k]]

\* The entries of a page: startIndex, endIndex and the slice.
pageGameObjectsOf(allGameObjects, page) ==
    LET startIndex == (page - 1) * gamesPerPage
        endIndex == startIndex + gamesPerPage
    IN slice(allGameObjects, startIndex, endIndex)

newPipe(gameObject) ==
    [entry |-> gameObject, pc |-> "start", game |-> NoData,
     slug |-> "pending", search |-> "none", results |-> <<>>,
     slugCalls |-> 0, searchCalls |-> 0]

HasFreeSlot(w) == \E s \in 1..MaxLive : IsFree(w.calls[s])

freeSlot(w) ==
    CHOOSE s \in 1..MaxLive :
        IsFree(w.calls[s]) /\ \A t \in 1..(s - 1) : ~IsFree(w.calls[t])

RECURSIVE startPipelines(_, _, _, _)
\* pageGameObjects.map(async ...): every entry's pipeline runs up to its
\* first fetch, in page order.
startPipelines(w, s, i, n) ==
    IF i > n
    THEN IF n = 0 THEN promiseAll(w, s) ELSE w
    ELSE startPipelines(fetchCuratedGameData(w, s, i), s, i + 1, n)

displayCuratedGamesForGenre(w, genre, page) ==
    LET w1 == [w EXCEPT !.cur = [g \in DOMAIN @ \cup {genre} |->
                                   IF g = genre THEN page ELSE @[g]]]
    IN IF w1.tab # genre THEN w1
       ELSE IF genre \notin DOMAIN curatedGames
       THEN [w1 EXCEPT !.grid = <<>>, !.link = ""]
       ELSE
         LET categoryData == curatedGames[genre]
             startIndex == (page - 1) * gamesPerPage
             pageGameObjects == pageGameObjectsOf(categoryData.games, page)
             s == freeSlot(w1)
             w2 == [w1 EXCEPT
                      !.link = categoryData.link,
                      !.grid = [k \in 1..Len(pageGameObjects) |->
                                  createGameCardPlaceholderHTML(startIndex + k - 1)],
                      !.calls[s] =
                          [genre |-> genre, page |-> page,
                           startIndex |-> startIndex, switched |-> FALSE,
                           pipes |-> [k \in 1..Len(pageGameObjects) |->
                                        newPipe(pageGameObjects[k])]]]
         IN startPipelines(w2, s, 1, Len(pageGameObjects))

\* What renderCuratedTabs puts into the tab container.
renderCuratedTabs(tab) ==
    [k \in 1..Len(curatedGenres) |->
        [genre |-> curatedGenres[k], active |-> curatedGenres[k] = tab]]

----------------------------------------------------------------------------
(* The tasks.                                                              *)

\* The state once the UIManager and the GameAPI have been constructed.
Constructed ==
    /\ activeCuratedTab = curatedGenres[1]
    /\ currentPageByGenre = <<>>
    /\ tabs = <<>>
    /\ grid = <<>>
    /\ link = ""
    /\ pagination = NoPagination
    /\ calls = [s \in 1..MaxLive |-> Free]
    /\ cache = [u \in AllURLs |-> NoEntry]
    /\ now = 0
    /\ clicks = 0
    /\ rets = {}
    /\ eventQueue = <<>>
    /\ storedEvents = <<>>
    /\ requests = {}
    /\ tracked = 0
    /\ synced = 0
    /\ collections = initializeEmptyCollections
    /\ stats = [totalGames |-> 0]
    /\ currentQuery = <<>>
    /\ searchResults = <<>>
    /\ resultsContainer = EmptyState
    /\ timeout = NoTimeout
    /\ searches = <<>>
    /\ notifications = <<>>
    /\ queue = <<>>
    /\ autoTimers = {}
    /\ removals = <<>>
    /\ closed = [id \in 1..MaxShown |-> 0]
    /\ displayed = <<>>
    /\ shown = 0
    /\ localStorage = <<>>
    /\ caches = STATIC_ASSETS
    /\ fetches = {}

Init ==
    /\ Constructed
    /\ args = NoArgs
    /\ out = NoOut

\* UIManager.init calls setupCuratedSection once.
setupCuratedSection ==
    /\ tabs = <<>>
    /\ Commit(displayCuratedGamesForGenre(
                [World EXCEPT !.tabs = renderCuratedTabs(activeCuratedTab)],
                activeCuratedTab, 1))
    /\ UNCHANGED <<now, clicks>>

\* Mutant: the page is dispatched first and the active tab is set afterwards.
TabClick_dispatchFirst(genre) ==
    /\ clicks < MaxClicks
    /\ clicks' = clicks + 1
    /\ \E k \in 1..Len(tabs) : tabs[k].genre = genre
    /\ HasFreeSlot(World)
    /\ LET w1 == displayCuratedGamesForGenre(World, genre, 1)
       IN Commit([w1 EXCEPT
                    !.tab = genre,
                    !.tabs = renderCuratedTabs(genre),
                    !.calls = [s \in 1..MaxLive |->
                                 IF IsFree(@[s]) \/ genre = activeCuratedTab
                                 THEN @[s]
                                 ELSE [@[s] EXCEPT !.switched = TRUE]]])
    /\ UNCHANGED now

\* Mutant: a tab click goes to the page recorded for the genre, if any.
onTabClick_keepsPage(genre) ==
    /\ \E k \in 1..Len(tabs) : tabs[k].genre = genre
    /\ HasFreeSlot(World)
    /\ LET w1 == [World EXCEPT
                    !.tab = genre,
                    !.tabs = renderCuratedTabs(genre),
                    !.calls = [s \in 1..MaxLive |->
                                 IF IsFree(@[s]) \/ genre = activeCuratedTab
                                 THEN @[s]
                                 ELSE [@[s] EXCEPT !.switched = TRUE]]]
       IN Commit(displayCuratedGamesForGenre(
                   w1, genre,
                   IF genre \in DOMAIN currentPageByGenre
                   THEN currentPageByGenre[genre] ELSE 1))
    /\ UNCHANGED now

\* The click handler of a genre tab.
onTabClick(genre) ==
    /\ \E k \in 1..Len(tabs) : tabs[k].genre = genre
    /\ HasFreeSlot(World)
    /\ LET w1 == [World EXCEPT
                    !.tab = genre,
                    !.tabs = renderCuratedTabs(genre),
                    !.calls = [s \in 1..MaxLive |->
                                 IF IsFree(@[s]) \/ genre = activeCuratedTab
                                 THEN @[s]
                                 ELSE [@[s] EXCEPT !.switched = TRUE]]]
       IN Commit(displayCuratedGamesForGenre(w1, genre, 1))
    /\ UNCHANGED now

\* The click handlers of the Previous and Next buttons.
onPrevClick ==
    /\ hasPrev(pagination)
    /\ pagination.genre = activeCuratedTab => HasFreeSlot(World)
    /\ Commit(displayCuratedGamesForGenre(World, pagination.genre,
                                          pagination.page - 1))
    /\ UNCHANGED now

onNextClick ==
    /\ hasNext(pagination)
    /\ pagination.genre = activeCuratedTab => HasFreeSlot(World)
    /\ Commit(displayCuratedGamesForGenre(World, pagination.genre,
                                          pagination.page + 1))
    /\ UNCHANGED now

\* A click, one of at most MaxClicks.
TabClick(genre) ==
    /\ clicks < MaxClicks
    /\ clicks' = clicks + 1
    /\ onTabClick(genre)

PrevClick ==
    /\ clicks < MaxClicks
    /\ clicks' = clicks + 1
    /\ onPrevClick

NextClick ==
    /\ clicks < MaxClicks
    /\ clicks' = clicks + 1
    /\ onNextClick

Awaiting(s, i, pc) ==
    /\ ~IsFree(calls[s])
    /\ i \in 1..Len(calls[s].pipes)
    /\ calls[s].pipes[i].pc = pc

\* fetch of games/<slug> completes with a success status.
DetailsOk(s, i) ==
    /\ Awaiting(s, i, "details")
    /\ LET slug == calls[s].pipes[i].entry.slug
           game == RecordOf(slug)
           w1 == [World EXCEPT !.cache = cacheSet(@, GameURL(slug), game),
                               !.calls[s].pipes[i].game = game]
       IN Commit(getScreenshots(w1, s, i))
    /\ UNCHANGED <<now, clicks>>

\* fetch of games/<slug> fails: a transport error or a non-success status.
DetailsFail(s, i) ==
    /\ Awaiting(s, i, "details")
    /\ Commit(slugFailed(World, s, i))
    /\ UNCHANGED <<now, clicks>>

\* fetch of games/<slug>/screenshots completes with a success status.
ShotsOk(s, i) ==
    /\ Awaiting(s, i, "shots")
    /\ LET p == calls[s].pipes[i]
           w1 == [World EXCEPT
                    !.cache = cacheSet(@, ShotsURL(p.entry.slug), "screenshots")]
       IN Commit(slugReturned(w1, s, i, p.game))
    /\ UNCHANGED <<now, clicks>>

\* fetch of games/<slug>/screenshots fails.
ShotsFail(s, i) ==
    /\ Awaiting(s, i, "shots")
    /\ Commit(slugFailed(World, s, i))
    /\ UNCHANGED <<now, clicks>>

\* fetch of the title search completes with a success status.
SearchOk(s, i) ==
    /\ Awaiting(s, i, "search")
    /\ LET title == calls[s].pipes[i].entry.title
           games == SearchResults(title)
           w1 == [World EXCEPT !.cache = cacheSet(@, SearchURL(title), games)]
       IN Commit(searchReturned(w1, s, i, games))
    /\ UNCHANGED <<now, clicks>>

\* fetch of the title search fails.
SearchFail(s, i) ==
    /\ Awaiting(s, i, "search")
    /\ Commit(searchFailed(World, s, i))
    /\ UNCHANGED <<now, clicks>>

Next ==
    \/ setupCuratedSection
    \/ \E genre \in Genres : TabClick(genre)
    \/ PrevClick
    \/ NextClick
    \/ \E s \in 1..MaxLive, i \in 1..gamesPerPage : DetailsOk(s, i)
    \/ \E s \in 1..MaxLive, i \in 1..gamesPerPage : DetailsFail(s, i)
    \/ \E s \in 1..MaxLive, i \in 1..gamesPerPage : ShotsOk(s, i)
    \/ \E s \in 1..MaxLive, i \in 1..gamesPerPage : ShotsFail(s, i)
    \/ \E s \in 1..MaxLive, i \in 1..gamesPerPage : SearchOk(s, i)
    \/ \E s \in 1..MaxLive, i \in 1..gamesPerPage : SearchFail(s, i)

Spec == Init /\ [][Next]_vars

----------------------------------------------------------------------------
(* Claims about the resolution pipeline and the render adapter.            *)

GamesOf(genre) ==
    {curatedGames[genre].games[k] : k \in 1..Len(curatedGames[genre].games)}

TitlesOf(genre) == {e.title : e \in GamesOf(genre)}

LivePipes ==
    {<<s, i>> \in (1..MaxLive) \X (1..gamesPerPage) :
        ~IsFree(calls[s]) /\ i \in 1..Len(calls[s].pipes)}

\* C1 (as claimed): a pipeline that finds, after its slug lookup or after its
\* search, succeeded or failed, that the active tab is no longer its genre
\* returns 'aborted', and it has put no 'searching' card into a placeholder:
\* every 'searching' card in the grid belongs to an entry of the active genre.
C1_AbortedOnEveryExit ==
    /\ \A r \in rets : r.tab # r.genre => r.status = "aborted"
    /\ \A k \in 1..Len(grid) :
          grid[k].kind = "searching" => grid[k].title \in TitlesOf(activeCuratedTab)

\* C2 (as claimed): a pipeline during whose run the active tab changed returns
\* 'aborted', and its placeholder is not replaced.
C2_ChangedTabAborts ==
    \A r \in rets : r.switched => r.status = "aborted" /\ ~r.patched

\* C3 (as claimed): at most one tab is active, and a call for a genre that is
\* not the active tab writes neither that genre's page number, nor the
\* pagination controls.
C3_StaleCallWritesNothing ==
    /\ [](Cardinality({k \in 1..Len(tabs) : tabs[k].active}) <= 1)
    /\ [][/\ \A g \in DOMAIN currentPageByGenre' :
               (g \notin DOMAIN currentPageByGenre
                   \/ currentPageByGenre'[g] # currentPageByGenre[g])
                   => g = activeCuratedTab'
          /\ pagination' # pagination
                   => pagination'.genre \in {"none", activeCuratedTab'}]_vars

\* C4: every page number recorded in currentPageByGenre lies between 1 and
\* the number of pages of its genre.
C4_PageInRange ==
    \A g \in DOMAIN currentPageByGenre :
        /\ 1 <= currentPageByGenre[g]
        /\ currentPageByGenre[g] <= totalPagesOf(g)

\* The last page of a genre with several pages has been shown after Next.
C4_Witness ==
    /\ "Action" \in DOMAIN currentPageByGenre
    /\ totalPagesOf("Action") > 1
    /\ currentPageByGenre["Action"] = totalPagesOf("Action")
    /\ pagination = [genre |-> "Action", page |-> totalPagesOf("Action"),
                     total |-> totalPagesOf("Action")]

\* C5: the search is issued only after the slug lookup of the same pipeline
\* has failed; a pipeline whose slug lookup succeeded with its genre still
\* the active tab returns 'found' with the looked-up record and has issued
\* no search.
C5_SlugBeforeSearch ==
    /\ \A sp \in LivePipes :
          LET p == calls[sp[1]].pipes[sp[2]]
          IN (p.pc = "search" \/ p.searchCalls > 0)
                 => p.slug = "failed" /\ p.slugCalls = 1
    /\ \A r \in rets :
          /\ r.searchCalls > 0 => r.slug = "failed"
          /\ (r.slug = "ok" /\ r.tab = r.genre)
                 => /\ r.status = "found"
                    /\ r.data = r.game
                    /\ r.game = RecordOf(r.entry.slug)
                    /\ r.searchCalls = 0
                    /\ r.search = "none"

\* One pipeline returns 'found' from its slug lookup while a sibling, whose
\* slug lookup failed, awaits its search.
C5_Witness ==
    /\ \E r \in rets : r.slug = "ok" /\ r.status = "found" /\ r.patched
    /\ \E sp \in LivePipes : calls[sp[1]].pipes[sp[2]].pc = "search"

\* The position of the first candidate whose lower-cased name is the
\* lower-cased title, 0 if there is none.
FirstExact(title, results) ==
    LET hits == {k \in 1..Len(results) :
                    toLowerCase(results[k].name) = toLowerCase(title)}
    IN IF hits = {} THEN 0 ELSE CHOOSE k \in hits : \A m \in hits : k <= m

\* C6: after a failed slug lookup, with the genre still the active tab, a
\* search whose results hold a case-insensitive exact match of the title ends
\* the entry 'found' with that record, and a search with no results ends it
\* 'not_found' with no data.
C6_SearchOutcome ==
    \A r \in rets :
        (r.slug = "failed" /\ r.search = "ok" /\ r.tab = r.genre)
            => /\ FirstExact(r.entry.title, r.results) # 0
                    => /\ r.status = "found"
                       /\ r.data = r.results[FirstExact(r.entry.title, r.results)]
               /\ Len(r.results) = 0
                    => r.status = "not_found" /\ r.data = NoData

\* A search has returned an exact match that is not the first candidate and
\* differs from the title in case.
C6_Witness ==
    \E r \in rets :
        /\ r.slug = "failed" /\ r.search = "ok" /\ r.tab = r.genre
        /\ FirstExact(r.entry.title, r.results) > 1
        /\ r.results[FirstExact(r.entry.title, r.results)].name # r.entry.title
        /\ r.status = "found"

\* C7: fetchCuratedGameData always returns one of its three results; a failed
\* slug lookup goes on to the search, and a failed search ends the entry
\* 'not_found' with no data while its genre is the active tab.
C7_NeverThrows ==
    /\ \A sp \in LivePipes :
          LET p == calls[sp[1]].pipes[sp[2]]
          IN p.slug = "failed" => p.pc = "search" /\ p.searchCalls = 1
    /\ \A r \in rets :
          /\ r.status \in {"found", "not_found", "aborted"}
          /\ r.slug = "failed" => r.searchCalls = 1
          /\ (r.search = "failed" /\ r.tab = r.genre)
                 => r.status = "not_found" /\ r.data = NoData

\* Both requests of one entry have failed.
C7_Witness ==
    \E r \in rets :
        /\ r.slug = "failed" /\ r.search = "failed" /\ r.tab = r.genre
        /\ r.status = "not_found"

\* What the responses to an entry's own requests make of it.
OwnOutcome(r) ==
    IF r.slug = "ok"
    THEN IF r.tab # r.genre THEN "aborted" ELSE "found"
    ELSE IF r.search = "ok"
    THEN IF r.tab # r.genre THEN "aborted"
         ELSE IF findBestMatch(r.entry.title, r.results) # NoMatch
              THEN "found" ELSE "not_found"
    ELSE "not_found"

\* C8: an entry's result depends on the responses to its own requests only,
\* whatever failed for its siblings; with its genre the active tab its
\* placeholder, if still in the grid, is replaced by the card of its own
\* result; and the call goes on to render the pagination controls once the
\* last entry has returned.
C8_FailureIsolated ==
    \A r \in rets :
        /\ r.status = OwnOutcome(r)
        /\ (r.tab = r.genre /\ r.pos # 0)
              => /\ r.patched
                 /\ grid[r.pos] =
                      IF r.status = "found"
                      THEN createGameCardHTMLFromData(r.data, r.entry.title)
                      ELSE createGameCardNotFoundHTML(r.entry.title)
        /\ IsFree(calls[r.call])
              => pagination = renderCuratedPagination(r.genre, r.page,
                                                      totalPagesOf(r.genre))

\* An entry is found and patched although its sibling's slug lookup failed.
C8_Witness ==
    \E r \in rets :
        /\ r.slug = "ok" /\ r.status = "found" /\ r.patched
        /\ \E k \in 1..Len(grid) :
              k # r.pos /\ grid[k].kind \in {"searching", "notfound"}

\* C9: a pipeline calls getGameDetails once and searchGames at most once; a
\* failed slug lookup leads to the search and a failed search to 'not_found'.
C9_NoRetry ==
    /\ \A sp \in LivePipes :
          LET p == calls[sp[1]].pipes[sp[2]]
          IN p.pc # "done" => /\ p.slugCalls = 1
                              /\ p.searchCalls <= 1
                              /\ p.searchCalls = 1 <=> p.slug = "failed"
    /\ \A r \in rets :
          /\ r.slugCalls = 1
          /\ r.searchCalls <= 1
          /\ r.searchCalls = 1 <=> r.slug = "failed"
          /\ r.search = "failed" => r.status = "not_found"

\* An entry has ended after one slug lookup, which failed, and one search,
\* which returned.
C9_Witness ==
    \E r \in rets :
        /\ r.slug = "failed" /\ r.search = "ok"
        /\ r.slugCalls = 1 /\ r.searchCalls = 1

\* A pipeline that starts its search has put the searching card into its
\* placeholder, if the grid holds one.
SearchingShownBeforeSearch ==
    \A s \in 1..MaxLive, i \in 1..gamesPerPage :
        (/\ ~IsFree(calls[s]) /\ ~IsFree(calls'[s])
         /\ i \in 1..Len(calls[s].pipes)
         /\ calls[s].pipes[i].pc \in {"details", "shots"}
         /\ calls'[s].pipes[i].pc = "search")
            => LET pos == querySelector(grid, calls[s].startIndex + (i - 1))
               IN pos # 0 => grid'[pos].kind = "searching"

\* Once no call is in flight no searching card is left in the grid.
SearchingNotTerminal ==
    (\A s \in 1..MaxLive : IsFree(calls[s]))
        => \A k \in 1..Len(grid) : grid[k].kind # "searching"

\* The placeholder that an entry whose slug lookup succeeded is rendered into
\* did not show a searching card, unless it was put there for the same entry
\* by another resolution of it, whose slug lookup failed.
NoSearchingAfterSlugSuccess ==
    \A r \in rets :
        (r.slug = "ok" /\ r.patched /\ r.before = "searching")
            => r.beforeTitle = r.entry.title

\* C10 (as claimed): the searching card is put up before the search request,
\* it is never what is left of an entry whose requests have completed, and
\* an entry whose slug lookup succeeds never shows it.
C10_SearchingOnlyOnFallback ==
    /\ [][SearchingShownBeforeSearch]_vars
    /\ []SearchingNotTerminal
    /\ []NoSearchingAfterSlugSuccess

----------------------------------------------------------------------------
(* UIManager.levenshteinDistance on its own: every pair of strings of at   *)
(* most MaxLen characters.                                                 *)

uiVars == <<activeCuratedTab, currentPageByGenre, tabs, grid, link,
            pagination, calls, clicks, rets>>

Alphabet == {"a", "A", "b"}

StringsUpTo(n) == UNION {[1..k -> Alphabet] : k \in 0..n}

InitLev ==
    /\ Constructed
    /\ args \in {[op |-> "lev", a |-> a, b |-> b] :
                    a \in StringsUpTo(MaxLen), b \in StringsUpTo(MaxLen)}
    /\ out = NoOut

\* The distance of the pair, of the pair swapped, and of a to itself.
Distance ==
    /\ args.op = "lev"
    /\ out.op = "none"
    /\ out' = [op |-> "lev",
               d |-> levenshteinDistance(args.a, args.b),
               back |-> levenshteinDistance(args.b, args.a),
               self |-> levenshteinDistance(args.a, args.a)]
    /\ UNCHANGED <<appVars, uiVars, cache, now, args>>

NextLev == Distance

SpecLev == InitLev /\ [][NextLev]_vars

\* The strings one insertion, deletion or substitution away from s.
OneEdit(s) ==
    {SubSeq(s, 1, k) \o <<c>> \o SubSeq(s, k + 1, Len(s)) :
        k \in 0..Len(s), c \in Alphabet}
    \cup {SubSeq(s, 1, k - 1) \o SubSeq(s, k + 1, Len(s)) : k \in 1..Len(s)}
    \cup {[s EXCEPT ![k] = c] : k \in 1..Len(s), c \in Alphabet}

RECURSIVE EditsFrom(_, _, _)
\* The least number of edits, k or more, that lead from one of the strings
\* in reached to b; intermediate strings have at most MaxLen + 1 characters.
EditsFrom(reached, b, k) ==
    IF b \in reached THEN k
    ELSE EditsFrom(reached \cup {t \in UNION {OneEdit(s) : s \in reached} :
                                    Len(t) <= MaxLen + 1},
                   b, k + 1)

MinEdits(a, b) == EditsFrom({a}, b, 0)

\* C18: levenshteinDistance(a, b) is the least number of single-character
\* insertions, deletions and substitutions that turn a into b; the distance
\* from the empty string is the length of b, the distance of a string to
\* itself is 0, and the distance is symmetric.
C18_DistanceIsMinimalEdits ==
    out.op = "lev" =>
        /\ out.d = MinEdits(args.a, args.b)
        /\ (args.a = <<>> => out.d = Len(args.b))
        /\ out.self = 0
        /\ out.back = out.d

\* A pair of non-empty strings of different lengths that are two edits apart.
C18_Witness ==
    /\ out.op = "lev"
    /\ args.a # <<>> /\ args.b # <<>> /\ Len(args.a) # Len(args.b)
    /\ out.d = 2

----------------------------------------------------------------------------
(* UIManager.findBestMatch on its own: every target title of at most       *)
(* MaxLen characters against every list of at most MaxResults candidates.  *)

\* The k-th record of a search response whose names are given.
Candidate(names, k) == [slug |-> <<"#", ToString(k)>>, name |-> names[k]]

CandidateLists ==
    UNION {{[k \in 1..n |-> Candidate(names, k)] :
              names \in [1..n -> StringsUpTo(MaxLen)]} : n \in 0..MaxResults}

InitMatch ==
    /\ Constructed
    /\ args \in {[op |-> "match", targetTitle |-> t, results |-> r] :
                    t \in StringsUpTo(MaxLen), r \in CandidateLists}
    /\ out = NoOut

Match ==
    /\ args.op = "match"
    /\ out.op = "none"
    /\ out' = [op |-> "match",
               bestMatch |-> findBestMatch(args.targetTitle, args.results)]
    /\ UNCHANGED <<appVars, uiVars, cache, now, args>>

NextMatch == Match

SpecMatch == InitMatch /\ [][NextMatch]_vars

\* The positions of the candidates whose lower-cased name is the lower-cased
\* target.
ExactAt(targetTitle, results) ==
    {k \in 1..Len(results) :
        toLowerCase(results[k].name) = toLowerCase(targetTitle)}

Least(S) == CHOOSE k \in S : \A m \in S : k <= m

\* C16: when some candidate's lower-cased name equals the lower-cased target,
\* findBestMatch returns the first such candidate of the list.
C16_FirstExactWins ==
    (out.op = "match" /\ ExactAt(args.targetTitle, args.results) # {})
        => out.bestMatch =
             args.results[Least(ExactAt(args.targetTitle, args.results))]

\* The second candidate matches the target in another casing, behind a
\* candidate that does not match; the second has been returned.
C16_Witness ==
    /\ out.op = "match"
    /\ Len(args.results) = 2
    /\ ExactAt(args.targetTitle, args.results) = {2}
    /\ args.results[2].name # args.targetTitle
    /\ args.results[1].name # <<>>
    /\ out.bestMatch = args.results[2]

DistanceTo(targetTitle, results, k) ==
    levenshteinDistance(toLowerCase(targetTitle), toLowerCase(results[k].name))

\* The positions of the candidates at the least distance from the target.
NearestAt(targetTitle, results) ==
    {k \in 1..Len(results) :
        \A m \in 1..Len(results) :
            DistanceTo(targetTitle, results, k)
                <= DistanceTo(targetTitle, results, m)}

\* C17: without an exact match, findBestMatch returns the earliest of the
\* candidates at the least distance if twice that distance is less than the
\* length of the target, and null otherwise; for an empty list it returns
\* null.
C17_NearestUnderHalf ==
    (out.op = "match" /\ ExactAt(args.targetTitle, args.results) = {})
        => IF args.results = <<>>
           THEN out.bestMatch = NoMatch
           ELSE LET first == Least(NearestAt(args.targetTitle, args.results))
                    min == DistanceTo(args.targetTitle, args.results, first)
                IN IF 2 * min < Len(args.targetTitle)
                   THEN out.bestMatch = args.results[first]
                   ELSE out.bestMatch = NoMatch

\* Two different candidates at distance 1 from a three-letter target, none
\* exact: the first has been returned.
C17_Witness ==
    /\ out.op = "match"
    /\ Len(args.targetTitle) = 3
    /\ Len(args.results) = 2
    /\ args.results[1].name # args.results[2].name
    /\ DistanceTo(args.targetTitle, args.results, 1) = 1
    /\ DistanceTo(args.targetTitle, args.results, 2) = 1
    /\ out.bestMatch = args.results[1]

----------------------------------------------------------------------------
(* The paging of displayCuratedGamesForGenre on its own: every list of at  *)
(* most MaxGames different entries, paged through from page 1.             *)

GameLists ==
    UNION {{[k \in 1..n |-> CuratedEntry(f[k])] :
              f \in {h \in [1..n -> 1..Len(TitlePool)] :
                        \A i, j \in 1..n : h[i] = h[j] => i = j}}
           : n \in 0..MaxGames}

InitPages ==
    /\ Constructed
    /\ args \in {[op |-> "pages", games |-> g] : g \in GameLists}
    /\ out = [op |-> "pages", page |-> 0, pageGameObjects |-> <<>>,
              shown |-> <<>>]

\* The next page of the list is dispatched.
ShowNextPage ==
    /\ args.op = "pages"
    /\ out.page < pageCount(args.games)
    /\ LET pageGameObjects == pageGameObjectsOf(args.games, out.page + 1)
       IN out' = [op |-> "pages", page |-> out.page + 1,
                  pageGameObjects |-> pageGameObjects,
                  shown |-> out.shown \o pageGameObjects]
    /\ UNCHANGED <<appVars, uiVars, cache, now, args>>

NextPages == ShowNextPage

SpecPages == InitPages /\ [][NextPages]_vars

\* C11: page p holds games[(p-1)*gamesPerPage .. p*gamesPerPage - 1] in the
\* order of the list; page 1 is the first gamesPerPage entries, or all of
\* them if there are fewer; the last page holds between 1 and gamesPerPage
\* entries; and the pages in order concatenate to the list.
C11_PagesPartitionList ==
    (out.op = "pages" /\ out.page >= 1) =>
        LET games == args.games
            p == out.page
            upTo == Min2(p * gamesPerPage, Len(games))
        IN /\ out.pageGameObjects
                 = SubSeq(games, (p - 1) * gamesPerPage + 1, upTo)
           /\ p = 1 => Len(out.pageGameObjects)
                           = Min2(gamesPerPage, Len(games))
           /\ out.shown = SubSeq(games, 1, upTo)
           /\ p = pageCount(games) =>
                 /\ Len(out.pageGameObjects) \in 1..gamesPerPage
                 /\ out.shown = games

\* A list of several pages has been paged through to its last page, which is
\* not full.
C11_Witness ==
    /\ out.op = "pages"
    /\ out.page >= 2
    /\ out.page = pageCount(args.games)
    /\ Len(out.pageGameObjects) < gamesPerPage
    /\ out.shown = args.games

----------------------------------------------------------------------------
(* Claims about the grid, the requests in flight and the tab clicks, under *)
(* Spec.                                                                   *)

\* The cards an entry can end up as: the record behind its slug, the best
\* match of its title search, or the not-found card.
CardsOf(entry) ==
    LET bestMatch == findBestMatch(entry.title, SearchResults(entry.title))
    IN {createGameCardHTMLFromData(RecordOf(entry.slug), entry.title),
        createGameCardNotFoundHTML(entry.title)}
       \cup (IF bestMatch = NoMatch THEN {}
             ELSE {createGameCardHTMLFromData(bestMatch, entry.title)})

Quiescent == tabs # <<>> /\ \A s \in 1..MaxLive : IsFree(calls[s])

\* The entries of the page that the active tab shows.
ShownEntries ==
    pageGameObjectsOf(curatedGames[activeCuratedTab].games,
                      currentPageByGenre[activeCuratedTab])

\* A call that starts to wait for its entries has put one placeholder per
\* entry into the grid, in page order; an entry that has returned already
\* (all its responses were cached) shows its card there.
PlaceholdersAtDispatch ==
    \A s \in 1..MaxLive :
        (IsFree(calls[s]) /\ ~IsFree(calls'[s])) =>
            LET c == calls'[s]
            IN /\ Len(grid') = Len(c.pipes)
               /\ c.pipes = [k \in 1..Len(c.pipes) |->
                                [c.pipes[k] EXCEPT !.entry =
                                    pageGameObjectsOf(
                                        curatedGames[c.genre].games,
                                        c.page)[k]]]
               /\ \A k \in 1..Len(c.pipes) :
                     IF c.pipes[k].pc = "done"
                     THEN grid'[k] \in CardsOf(c.pipes[k].entry)
                     ELSE grid'[k]
                            = createGameCardPlaceholderHTML(c.startIndex + k - 1)

\* Once every pipeline has completed, position k of the grid holds a card of
\* entry k of the page shown.
GridOfShownPage ==
    Quiescent =>
        /\ Len(grid) = Len(ShownEntries)
        /\ \A k \in 1..Len(grid) : grid[k] \in CardsOf(ShownEntries[k])

\* An entry that returns while its genre is the active tab has its
\* placeholder replaced in the same task, whatever its siblings are doing.
PatchedOnReturn ==
    \A r \in rets :
        (r.tab = r.genre /\ r.pos # 0)
            => /\ r.patched
               /\ r.pos = r.index
               /\ grid[r.pos] \in CardsOf(r.entry)
               /\ grid[r.pos].kind = IF r.status = "found" THEN "card"
                                     ELSE "notfound"

\* C12: displayCuratedGamesForGenre emits one placeholder per entry in page
\* order at dispatch; each entry's placeholder is replaced as soon as that
\* entry returns; and when all have returned, in whatever order,
\* position k of the grid holds the card of entry k.
C12_GridIndependentOfOrder ==
    /\ [][PlaceholdersAtDispatch]_vars
    /\ []GridOfShownPage
    /\ []PatchedOnReturn

\* The second entry of the first page has been replaced by its card while
\* the first still shows its skeleton.
C12_Witness ==
    /\ clicks = 0
    /\ Len(grid) = 2
    /\ grid[1].kind = "skeleton"
    /\ grid[2] \in CardsOf(curatedGames[activeCuratedTab].games[2])

\* The URL a pipeline is fetching.
FetchingURL(p) ==
    CASE p.pc = "details" -> GameURL(p.entry.slug)
      [] p.pc = "shots"   -> ShotsURL(p.entry.slug)
      [] p.pc = "search"  -> SearchURL(p.entry.title)

Fetching ==
    {sp \in LivePipes :
        calls[sp[1]].pipes[sp[2]].pc \in {"details", "shots", "search"}}

\* C13 (as claimed): no two requests for the same URL are in flight
\* together, however the tabs are clicked.
C13_NoDuplicateRequests ==
    \A sp \in Fetching, tq \in Fetching :
        sp # tq => FetchingURL(calls[sp[1]].pipes[sp[2]])
                     # FetchingURL(calls[tq[1]].pipes[tq[2]])

\* C20: a step that makes another genre the active tab has dispatched page 1
\* of that genre with the new tab already in place (its link and its
\* placeholders are shown, its page is recorded as 1); and whenever
\* pipelines are dispatched, by whatever click, their genre is the active
\* tab of that moment.
C20_TabSetBeforeDispatch ==
    [][/\ activeCuratedTab' # activeCuratedTab =>
            /\ link' = curatedGames[activeCuratedTab'].link
            /\ currentPageByGenre'[activeCuratedTab'] = 1
            /\ Len(grid') = Len(pageGameObjectsOf(
                                  curatedGames[activeCuratedTab'].games, 1))
            /\ \/ rets' # {}
               \/ \E s \in 1..MaxLive :
                     /\ IsFree(calls[s]) /\ ~IsFree(calls'[s])
                     /\ calls'[s].genre = activeCuratedTab'
       /\ \A s \in 1..MaxLive :
            (IsFree(calls[s]) /\ ~IsFree(calls'[s]))
                => calls'[s].genre = activeCuratedTab'
       /\ clicks' # clicks =>
            \A r \in rets' : r.genre = activeCuratedTab' /\ r.tab = r.genre
      ]_vars

\* After a switch of tab the pipelines of the new tab's page are in flight
\* next to those of the tab left behind.
C20_Witness ==
    \E s \in 1..MaxLive, t \in 1..MaxLive :
        /\ ~IsFree(calls[s]) /\ ~IsFree(calls[t])
        /\ calls[s].genre = activeCuratedTab
        /\ calls[t].genre # activeCuratedTab
        /\ calls[t].switched

----------------------------------------------------------------------------
(* The navigation on its own: up to MaxNavClicks clicks, and an API whose  *)
(* every response is a success.                                            *)

NavTabClick(genre) ==
    /\ clicks < MaxNavClicks
    /\ clicks' = clicks + 1
    /\ onTabClick(genre)

NavPrevClick ==
    /\ clicks < MaxNavClicks
    /\ clicks' = clicks + 1
    /\ onPrevClick

NavNextClick ==
    /\ clicks < MaxNavClicks
    /\ clicks' = clicks + 1
    /\ onNextClick

NextNav ==
    \/ setupCuratedSection
    \/ \E genre \in Genres : NavTabClick(genre)
    \/ NavPrevClick
    \/ NavNextClick
    \/ \E s \in 1..MaxLive, i \in 1..gamesPerPage : DetailsOk(s, i)
    \/ \E s \in 1..MaxLive, i \in 1..gamesPerPage : ShotsOk(s, i)

SpecNav == Init /\ [][NextNav]_vars

\* The page recorded for a genre has been shown: the records of its entries
\* have been fetched.
WasShown(g) ==
    /\ g \in DOMAIN currentPageByGenre
    /\ \A k \in 1..Len(pageGameObjectsOf(curatedGames[g].games,
                                          currentPageByGenre[g])) :
          cache[GameURL(pageGameObjectsOf(curatedGames[g].games,
                                          currentPageByGenre[g])[k].slug)]
              .timestamp >= 0

----------------------------------------------------------------------------
(* GameAPI.makeRequest on its own: up to MaxRequests calls for two URLs of *)
(* the same endpoint, responses that succeed or fail, and a clock that     *)
(* advances by a millisecond or by just under the expiry time.             *)

ApiURLs == {SearchURL(TitlePool[1]), SearchURL(TitlePool[2])}

\* The bodies the server may answer with.
Bodies == {"v1", "v2"}

InitCache ==
    /\ Constructed
    /\ args = [op |-> "api", pending |-> {}, ticks |-> 0, requests |-> 0]
    /\ out = NoOut

\* makeRequest up to its await: a fresh cached entry is returned at once,
\* otherwise fetch is called.
makeRequest(url) ==
    /\ args.op = "api"
    /\ args.requests < MaxRequests
    /\ url \notin args.pending
    /\ IF cacheHit(cache, url)
       THEN /\ out' = [op |-> "api", url |-> url, outcome |-> "cached",
                       data |-> cacheGet(cache, url),
                       entryBefore |-> cache[url],
                       at |-> now]
            /\ args' = [args EXCEPT !.requests = @ + 1]
       ELSE /\ out' = [op |-> "api", url |-> url, outcome |-> "fetching",
                       data |-> "none", entryBefore |-> cache[url],
                       at |-> now]
            /\ args' = [args EXCEPT !.requests = @ + 1,
                                    !.pending = @ \cup {url}]
    /\ UNCHANGED <<appVars, uiVars, cache, now>>

\* The response has a success status: it is parsed, cached and returned.
fetchOk(url, data) ==
    /\ args.op = "api"
    /\ url \in args.pending
    /\ cache' = cacheSet(cache, url, data)
    /\ out' = [op |-> "api", url |-> url, outcome |-> "fetched",
               data |-> data, entryBefore |-> cache[url], at |-> now]
    /\ args' = [args EXCEPT !.pending = @ \ {url}]
    /\ UNCHANGED <<appVars, uiVars, now>>

\* Mutant: a failed refresh removes the entry it was meant to replace.
fetchFailed_evicts(url, error) ==
    /\ args.op = "api"
    /\ url \in args.pending
    /\ cache' = [cache EXCEPT ![url] = NoEntry]
    /\ out' = [op |-> "api", url |-> url, outcome |-> "threw",
               data |-> error, entryBefore |-> cache[url], at |-> now]
    /\ args' = [args EXCEPT !.pending = @ \ {url}]
    /\ UNCHANGED <<appVars, uiVars, now>>

\* fetch rejects (transport) or the response has a non-success status
\* (status): the error is logged and thrown on.
fetchFailed(url, error) ==
    /\ args.op = "api"
    /\ url \in args.pending
    /\ out' = [op |-> "api", url |-> url, outcome |-> "threw",
               data |-> error, entryBefore |-> cache[url], at |-> now]
    /\ args' = [args EXCEPT !.pending = @ \ {url}]
    /\ UNCHANGED <<appVars, uiVars, cache, now>>

\* Date.now() advances.
Tick(d) ==
    /\ args.op = "api"
    /\ args.ticks < MaxTicks
    /\ now' = now + d
    /\ args' = [args EXCEPT !.ticks = @ + 1]
    /\ UNCHANGED <<appVars, uiVars, cache, out>>

NextCache ==
    \/ \E url \in ApiURLs : makeRequest(url)
    \/ \E url \in ApiURLs, data \in Bodies : fetchOk(url, data)
    \/ \E url \in ApiURLs, error \in {"transport", "status"} :
          fetchFailed(url, error)
    \/ \E d \in {1, cacheExpiry - 1} : Tick(d)

SpecCache == InitCache /\ [][NextCache]_vars

\* C14: makeRequest returns the cached data without a fetch exactly when the
\* URL has an entry less than 15 minutes (900000 ms) old, and otherwise
\* calls fetch; a successful response then replaces the entry by the fresh
\* data, stamped with the time of its arrival.
C14_FreshEntryServedFromCache ==
    out.op = "api" =>
        /\ out.outcome \in {"cached", "fetching"} =>
              (out.outcome = "cached"
                  <=> /\ out.entryBefore.timestamp >= 0
                      /\ out.at - out.entryBefore.timestamp < 900000)
        /\ out.outcome = "cached" =>
              /\ <<out.data>> = out.entryBefore.data
              /\ cache[out.url] = out.entryBefore
              /\ out.url \notin args.pending
        /\ out.outcome = "fetching" => out.url \in args.pending
        /\ out.outcome = "fetched" =>
              cache[out.url] = [data |-> <<out.data>>, timestamp |-> out.at]

\* An entry exactly 15 minutes old has been replaced by a response with a
\* different body.
C14_Witness ==
    /\ out.op = "api"
    /\ out.outcome = "fetched"
    /\ out.entryBefore.timestamp >= 0
    /\ out.entryBefore.data # <<out.data>>
    /\ out.at - out.entryBefore.timestamp = 900000

\* C15: the cache changes only when a response with a success status has
\* arrived, and then only the entry under the URL of that request, which
\* becomes that response; a failure, whether of the transport or of the
\* status, is thrown to the caller and leaves the entry under the URL as it
\* was.
C15_OnlySuccessIsCached ==
    /\ [][\A u \in AllURLs :
             cache'[u] # cache[u]
                 => /\ out'.op = "api" /\ out'.outcome = "fetched"
                    /\ out'.url = u
                    /\ cache'[u] = [data |-> <<out'.data>>,
                                     timestamp |-> now']
          ]_vars
    /\ []((out.op = "api" /\ out.outcome = "threw")
             => /\ out.data \in {"transport", "status"}
                /\ cache[out.url] = out.entryBefore)

\* The refresh of an expired entry has failed with a non-success status, and
\* the expired entry is still there.
C15_Witness ==
    /\ out.op = "api"
    /\ out.outcome = "threw" /\ out.data = "status"
    /\ out.entryBefore.timestamp >= 0
    /\ cache[out.url] = out.entryBefore

----------------------------------------------------------------------------
(* Claims about the state in which no pipeline is in flight.               *)

\* C26 (as claimed): whenever no pipeline is in flight, the pagination
\* controls, if any are shown, are those of the active genre and show the
\* page recorded for it, and the grid holds the entries of that page.
C26_ControlsMatchGrid ==
    Quiescent =>
        /\ activeCuratedTab \in DOMAIN currentPageByGenre
        /\ pagination = renderCuratedPagination(
                            activeCuratedTab,
                            currentPageByGenre[activeCuratedTab],
                            totalPagesOf(activeCuratedTab))
        /\ Len(grid) = Len(ShownEntries)
        /\ \A k \in 1..Len(grid) : grid[k].title = ShownEntries[k].title

----------------------------------------------------------------------------
(* The curated section when every request is answered in the end: up to    *)
(* MaxFairClicks clicks, and weak fairness of the responses.               *)

FairTabClick(genre) ==
    /\ clicks < MaxFairClicks
    /\ clicks' = clicks + 1
    /\ onTabClick(genre)

FairNextClick ==
    /\ clicks < MaxFairClicks
    /\ clicks' = clicks + 1
    /\ onNextClick

\* Some request in flight is answered.
Completion ==
    \E s \in 1..MaxLive, i \in 1..gamesPerPage :
        \/ DetailsOk(s, i) \/ DetailsFail(s, i)
        \/ ShotsOk(s, i) \/ ShotsFail(s, i)
        \/ SearchOk(s, i) \/ SearchFail(s, i)

NextFair ==
    \/ setupCuratedSection
    \/ \E genre \in Genres : FairTabClick(genre)
    \/ FairNextClick
    \/ \E s \in 1..MaxLive, i \in 1..gamesPerPage : DetailsOk(s, i)
    \/ \E s \in 1..MaxLive, i \in 1..gamesPerPage : DetailsFail(s, i)
    \/ \E s \in 1..MaxLive, i \in 1..gamesPerPage : ShotsOk(s, i)
    \/ \E s \in 1..MaxLive, i \in 1..gamesPerPage : ShotsFail(s, i)
    \/ \E s \in 1..MaxLive, i \in 1..gamesPerPage : SearchOk(s, i)
    \/ \E s \in 1..MaxLive, i \in 1..gamesPerPage : SearchFail(s, i)

\* Some pipeline waits for the answer to a request: the guards of the
\* actions of Completion.
InFlight ==
    \E s \in 1..MaxLive, i \in 1..gamesPerPage :
        \E pc \in {"details", "shots", "search"} : Awaiting(s, i, pc)

\* The steps of NextFair that answer a request: the page is set up, no
\* control is clicked, and a call moves on.
Answered == tabs # <<>> /\ clicks' = clicks /\ calls' # calls

\* The page script runs when the document is loaded
\* (WF_tabs(setupCuratedSection)), and every request that was issued is
\* answered: WF_calls(Completion), with ENABLED <<Completion>>_calls and
\* <<Completion>>_calls written as InFlight and <<Answered>>_calls.
SpecFair ==
    /\ Init /\ [][NextFair]_vars
    /\ WF_tabs(setupCuratedSection)
    /\ ([]<>(~InFlight) \/ []<><<Answered>>_calls)

Unresolved(kind) == kind \in {"skeleton", "searching"}

\* C21: when every request is answered, every call of
\* displayCuratedGamesForGenre that waits for its entries gets all of them
\* back, each as exactly one of found, not_found and aborted, and a grid
\* that shows a skeleton or searching card comes to show none; nothing but
\* the answers ends a pipeline: none returns while a request of its own is
\* unanswered, and while it waits, undisturbed by clicks, its placeholder
\* stays a skeleton or searching card.
C21_EveryPipelineReturns ==
    /\ \A s \in 1..MaxLive : (~IsFree(calls[s])) ~> IsFree(calls[s])
    /\ (\E k \in 1..Len(grid) : Unresolved(grid[k].kind))
          ~> (\A k \in 1..Len(grid) : ~Unresolved(grid[k].kind))
    /\ [](\A r \in rets :
             /\ r.status \in {"found", "not_found", "aborted"}
             /\ r.slug \in {"ok", "failed"}
             /\ r.searchCalls = 1 => r.search \in {"ok", "failed"})
    /\ [](\A sp \in Fetching :
             clicks = 0 => Unresolved(grid[sp[2]].kind))

\* Every entry of the first page has returned after a failed slug lookup
\* and the grid shows their cards.
C21_Witness ==
    /\ Quiescent
    /\ clicks = 0
    /\ Len(grid) = gamesPerPage
    /\ \A k \in 1..Len(grid) : ~Unresolved(grid[k].kind)
    /\ \E k \in 1..Len(grid) : grid[k].kind = "notfound"

----------------------------------------------------------------------------
(* The curated section over an external dataset that does not change: a    *)
(* request for a URL is answered the same way every time.                  *)

\* The URLs the dataset may answer with an error: those of the first page.
FailPool ==
    UNION {{GameURL(e.slug), ShotsURL(e.slug), SearchURL(e.title)}
           : e \in {curatedGames["Action"].games[k] : k \in 1..gamesPerPage}}

InitTwice ==
    /\ Constructed
    /\ args \in {[op |-> "dataset", fails |-> F] : F \in SUBSET FailPool}
    /\ out = [op |-> "resolved", seen |-> {}]

Fails(url) == url \in args.fails

DatasetDetailsOk(s, i) ==
    /\ Awaiting(s, i, "details")
    /\ ~Fails(GameURL(calls[s].pipes[i].entry.slug))
    /\ DetailsOk(s, i)

DatasetDetailsFail(s, i) ==
    /\ Awaiting(s, i, "details")
    /\ Fails(GameURL(calls[s].pipes[i].entry.slug))
    /\ DetailsFail(s, i)

DatasetShotsOk(s, i) ==
    /\ Awaiting(s, i, "shots")
    /\ ~Fails(ShotsURL(calls[s].pipes[i].entry.slug))
    /\ ShotsOk(s, i)

DatasetShotsFail(s, i) ==
    /\ Awaiting(s, i, "shots")
    /\ Fails(ShotsURL(calls[s].pipes[i].entry.slug))
    /\ ShotsFail(s, i)

DatasetSearchOk(s, i) ==
    /\ Awaiting(s, i, "search")
    /\ ~Fails(SearchURL(calls[s].pipes[i].entry.title))
    /\ SearchOk(s, i)

DatasetSearchFail(s, i) ==
    /\ Awaiting(s, i, "search")
    /\ Fails(SearchURL(calls[s].pipes[i].entry.title))
    /\ SearchFail(s, i)

TwiceTabClick(genre) ==
    /\ clicks < MaxTwiceClicks
    /\ clicks' = clicks + 1
    /\ onTabClick(genre)

TwicePrevClick ==
    /\ clicks < MaxTwiceClicks
    /\ clicks' = clicks + 1
    /\ onPrevClick

TwiceNextClick ==
    /\ clicks < MaxTwiceClicks
    /\ clicks' = clicks + 1
    /\ onNextClick

NextTwice ==
    \/ setupCuratedSection
    \/ \E genre \in Genres : TwiceTabClick(genre)
    \/ TwicePrevClick
    \/ TwiceNextClick
    \/ \E s \in 1..MaxLive, i \in 1..gamesPerPage : DatasetDetailsOk(s, i)
    \/ \E s \in 1..MaxLive, i \in 1..gamesPerPage : DatasetDetailsFail(s, i)
    \/ \E s \in 1..MaxLive, i \in 1..gamesPerPage : DatasetShotsOk(s, i)
    \/ \E s \in 1..MaxLive, i \in 1..gamesPerPage : DatasetShotsFail(s, i)
    \/ \E s \in 1..MaxLive, i \in 1..gamesPerPage : DatasetSearchOk(s, i)
    \/ \E s \in 1..MaxLive, i \in 1..gamesPerPage : DatasetSearchFail(s, i)

SpecTwice == InitTwice /\ [][NextTwice]_vars

\* C22: of the results returned for one curated entry over an unchanged
\* dataset by calls under which the tab was not switched, any two, whether
\* they waited for a response or were served from the cache, have the same
\* status and, when found, the same data.slug.
C22_SameEntrySameResult ==
    out.op = "resolved" =>
        \A h1, h2 \in out.seen :
            (h1.entry = h2.entry /\ ~h1.switched /\ ~h2.switched)
                => /\ h1.status = h2.status
                   /\ h1.status = "found" => h1.slug = h2.slug

\* One entry was found by its slug and, resolved again on a click, found
\* again in the cache without waiting; another, whose slug lookup fails,
\* was found by the title search both times.
C22_Witness ==
    /\ out.op = "resolved"
    /\ \E h1, h2 \in out.seen :
          /\ h1.entry = h2.entry /\ ~h1.switched /\ ~h2.switched
          /\ h1.nth = 1 /\ h2.nth = 2
          /\ h1.awaited /\ ~h2.awaited
          /\ h1.status = "found"
    /\ \E h1, h2 \in out.seen :
          /\ h1.entry = h2.entry /\ ~h1.switched /\ ~h2.switched
          /\ h1.nth = 1 /\ h2.nth = 2
          /\ h1.status = "found"
          /\ h1.slug # h1.entry.slug

----------------------------------------------------------------------------
(* AnalyticsManager (track, flush, sendEvents) and the service worker's    *)
(* sync-analytics handler.                                                 *)

\* An event as track builds it: its id stands for the whole object.
Event(id) == [id |-> id, name |-> "event"]

\* storedEvents.slice(-maxStoredEvents): the last events of the store.
lastEvents(events) ==
    IF Len(events) <= maxStoredEvents THEN events
    ELSE SubSeq(events, Len(events) - maxStoredEvents + 1, Len(events))

\* sendEvents: the events are appended to the local store, of which the
\* most recent are kept; no request is made.  storageOk is whether
\* localStorage accepts the write.
sendEvents(a, events, storageOk) ==
    IF storageOk
    THEN [a EXCEPT !.stored = lastEvents(a.stored \o events),
                   !.result = "success"]
    ELSE [a EXCEPT !.result = "threw"]

\* flush: nothing to do on an empty queue, or on a short one unless forced;
\* otherwise the queue is emptied and handed to sendEvents, and put back in
\* front of the queue if sendEvents throws.
flush(a, force, storageOk) ==
    IF Len(a.queue) = 0 THEN a
    ELSE IF ~force /\ Len(a.queue) < batchSize THEN a
    ELSE LET events == a.queue
             a1 == sendEvents([a EXCEPT !.queue = <<>>], events, storageOk)
         IN IF a1.result = "threw"
            THEN [a1 EXCEPT !.queue = events \o @]
            ELSE a1

\* track: the event is queued, and the queue flushed once it is full.
track(a, event, storageOk) ==
    LET a1 == [a EXCEPT !.queue = Append(@, event)]
    IN IF Len(a1.queue) >= batchSize
       THEN flush(a1, FALSE, storageOk)
       ELSE a1

Analytics ==
    [queue |-> eventQueue, stored |-> storedEvents, result |-> "none"]

CommitAnalytics(a) ==
    /\ eventQueue' = a.queue
    /\ storedEvents' = a.stored

\* Some part of the application tracks an event.
Track ==
    /\ tracked < MaxEvents
    /\ tracked' = tracked + 1
    /\ \E storageOk \in BOOLEAN :
          CommitAnalytics(track(Analytics, Event(tracked + 1), storageOk))
    /\ UNCHANGED <<requests, synced>>
    /\ UNCHANGED <<uiVars, cache, now, args, out, collectionVars, searchVars,
                   serviceVars>>

\* The interval timer of startFlushTimer fires.
FlushTimer ==
    /\ \E storageOk \in BOOLEAN :
          CommitAnalytics(flush(Analytics, FALSE, storageOk))
    /\ UNCHANGED <<requests, tracked, synced>>
    /\ UNCHANGED <<uiVars, cache, now, args, out, collectionVars, searchVars,
                   serviceVars>>

\* handleBeforeUnload, setEnabled(false), destroy: flush(true).
ForcedFlush ==
    /\ \E storageOk \in BOOLEAN :
          CommitAnalytics(flush(Analytics, TRUE, storageOk))
    /\ UNCHANGED <<requests, tracked, synced>>
    /\ UNCHANGED <<uiVars, cache, now, args, out, collectionVars, searchVars,
                   serviceVars>>

\* Mutant: the pending events are those of the local store.
getPendingAnalyticsEvents_readsStore == storedEvents

\* sw.js getPendingAnalyticsEvents: a placeholder that returns no events.
getPendingAnalyticsEvents == <<>>

\* The service worker handles a sync event tagged sync-analytics:
\* syncAnalytics posts the pending events, if there are any.
SyncAnalytics ==
    /\ synced < MaxSyncs
    /\ synced' = synced + 1
    /\ LET pendingEvents == getPendingAnalyticsEvents
       IN requests' =
            IF Len(pendingEvents) > 0
            THEN requests \cup {[url |-> "/api/analytics", method |-> "POST",
                                 events |-> pendingEvents]}
            ELSE requests
    /\ UNCHANGED <<eventQueue, storedEvents, tracked>>
    /\ UNCHANGED <<uiVars, cache, now, args, out, collectionVars, searchVars,
                   serviceVars>>

NextAnalytics == Track \/ FlushTimer \/ ForcedFlush \/ SyncAnalytics

SpecAnalytics == Init /\ [][NextAnalytics]_vars

----------------------------------------------------------------------------
(* The flush timer of startFlushTimer, running: it fires again and again.  *)

\* out.fired is the parity of the number of times the timer has fired.
InitFlush ==
    /\ Constructed
    /\ args = NoArgs
    /\ out = [op |-> "flushTimer", fired |-> 0, storageOk |-> TRUE]

\* The interval timer fires: flush() is called without force.
FlushTimerFires(storageOk) ==
    /\ CommitAnalytics(flush(Analytics, FALSE, storageOk))
    /\ out' = [out EXCEPT !.fired = 1 - @, !.storageOk = storageOk]
    /\ UNCHANGED <<requests, tracked, synced>>
    /\ UNCHANGED <<uiVars, cache, now, args, collectionVars, searchVars,
                   serviceVars>>

NextFlush ==
    \/ Track
    \/ \E storageOk \in BOOLEAN : FlushTimerFires(storageOk)
    \/ ForcedFlush
    \/ SyncAnalytics

\* setInterval keeps firing, and localStorage does not refuse for ever.
SpecFlush ==
    /\ InitFlush /\ [][NextFlush]_vars
    /\ WF_out(\E storageOk \in BOOLEAN : FlushTimerFires(storageOk))
    /\ SF_out(FlushTimerFires(TRUE))

\* The event has been written to the store: events are written in the
\* order of their ids.
isWritten(id) == \E k \in 1..Len(storedEvents) : storedEvents[k].id >= id

\* C35: with the flush timer running, every event tracked is written to
\* the local store in the end.
C35_TrackedIsStored ==
    \A id \in 1..MaxEvents : (tracked >= id) ~> isWritten(id)

----------------------------------------------------------------------------
(* CollectionManager.  A call runs to its end in one task: its awaits are  *)
(* on StorageManager.set over localStorage, which settle in microtasks.    *)

\* A game as a caller hands it over, and an entry of a collection: its id
\* and its userRating, 0 where the field is absent.
Game(id) == [id |-> id, userRating |-> 0]

NoGame == [id |-> 0, userRating |-> 0]

GameIds == 1..MaxGameId

\* this.collections[collectionType] || []
gamesIn(c, collectionType) ==
    IF collectionType \in DOMAIN c THEN c[collectionType] ELSE <<>>

\* this.collections[collectionType] = list
setCollection(c, collectionType, list) ==
    [t \in DOMAIN c \cup {collectionType} |->
        IF t = collectionType THEN list ELSE c[t]]

RECURSIVE findIndex(_, _, _)
\* Array.prototype.findIndex(item => item.id === id) from position k on;
\* 0 stands for -1.
findIndex(list, id, k) ==
    IF k > Len(list) THEN 0
    ELSE IF list[k].id = id THEN k
    ELSE findIndex(list, id, k + 1)

\* The ids of all entries of all collections.
allGames(c) == UNION {{c[t][k].id : k \in 1..Len(c[t])} : t \in DOMAIN c}

\* calculateStatistics: allGames is a Map keyed by game.id.
calculateStatistics(m) ==
    [m EXCEPT !.stats = [totalGames |-> Cardinality(allGames(m.collections))]]

getGameFromCollection(c, collectionType, gameId) ==
    IF collectionType \notin DOMAIN c THEN NoGame
    ELSE LET k == findIndex(c[collectionType], gameId, 1)
         IN IF k = 0 THEN NoGame ELSE c[collectionType][k]

isGameInCollection(c, collectionType, gameId) ==
    getGameFromCollection(c, collectionType, gameId) # NoGame

removeFromCollection(m, collectionType, gameId) ==
    IF collectionType \notin DOMAIN m.collections
    THEN [m EXCEPT !.result = "false"]
    ELSE LET before == m.collections[collectionType]
             after == SelectSeq(before, LAMBDA game : game.id # gameId)
             m1 == [m EXCEPT !.collections =
                                setCollection(@, collectionType, after)]
         IN IF Len(after) < Len(before)
            THEN [calculateStatistics(m1) EXCEPT !.result = "true"]
            ELSE [m1 EXCEPT !.result = "false"]

\* rules[addedToCollection] || []
rules(addedToCollection) ==
    CASE addedToCollection = "completed" -> <<"playing", "backlog">>
      [] addedToCollection = "playing"   -> <<"backlog">>
      [] addedToCollection = "dropped"   -> <<"playing", "backlog">>
      [] OTHER -> <<>>

RECURSIVE removeFromAll(_, _, _, _)
\* for (const collectionType of toRemoveFrom), from position k on.
removeFromAll(m, toRemoveFrom, k, gameId) ==
    IF k > Len(toRemoveFrom) THEN m
    ELSE removeFromAll(
           IF isGameInCollection(m.collections, toRemoveFrom[k], gameId)
           THEN removeFromCollection(m, toRemoveFrom[k], gameId)
           ELSE m,
           toRemoveFrom, k + 1, gameId)

\* Mutant: a game added to owned goes to the backlog even when it is being
\* played, is completed or was dropped.
autoManageCollections_alwaysBacklog(m, gameId, addedToCollection) ==
    LET m1 == removeFromAll(m, rules(addedToCollection), 1, gameId)
        c == m1.collections
    IN IF addedToCollection = "owned"
          /\ ~isGameInCollection(c, "backlog", gameId)
          /\ getGameFromCollection(c, "owned", gameId) # NoGame
       THEN [m1 EXCEPT !.collections =
               setCollection(@, "backlog",
                   Append(gamesIn(c, "backlog"),
                          getGameFromCollection(c, "owned", gameId)))]
       ELSE m1

autoManageCollections(m, gameId, addedToCollection) ==
    LET m1 == removeFromAll(m, rules(addedToCollection), 1, gameId)
        c == m1.collections
        isInPlayingOrCompleted ==
            \/ isGameInCollection(c, "playing", gameId)
            \/ isGameInCollection(c, "completed", gameId)
            \/ isGameInCollection(c, "dropped", gameId)
    IN IF addedToCollection = "owned"
          /\ ~isInPlayingOrCompleted
          /\ ~isGameInCollection(c, "backlog", gameId)
          /\ getGameFromCollection(c, "owned", gameId) # NoGame
       THEN [m1 EXCEPT !.collections =
               setCollection(@, "backlog",
                   Append(gamesIn(c, "backlog"),
                          getGameFromCollection(c, "owned", gameId)))]
       ELSE m1

\* {...existing, ...game}: the fields game has replace those of existing.
spread(existing, game) ==
    [id |-> game.id,
     userRating |-> IF game.userRating # 0 THEN game.userRating
                    ELSE existing.userRating]

\* Mutant: the game is pushed without a look for an entry with its id.
addToCollection_alwaysPushes(m, collectionType, game) ==
    IF collectionType \notin CollectionTypes
    THEN [m EXCEPT !.result = "threw"]
    ELSE LET list == gamesIn(m.collections, collectionType)
             m1 == [m EXCEPT !.collections =
                      setCollection(@, collectionType, Append(list, game))]
             m2 == autoManageCollections(m1, game.id, collectionType)
         IN [calculateStatistics(m2) EXCEPT !.result = "added"]

addToCollection(m, collectionType, game) ==
    IF collectionType \notin CollectionTypes
    THEN [m EXCEPT !.result = "threw"]
    ELSE LET list == gamesIn(m.collections, collectionType)
             existingIndex == findIndex(list, game.id, 1)
             updated ==
                 IF existingIndex # 0
                 THEN [list EXCEPT ![existingIndex] = spread(@, game)]
                 ELSE Append(list, game)
             m1 == [m EXCEPT !.collections =
                      setCollection(@, collectionType, updated)]
             m2 == autoManageCollections(m1, game.id, collectionType)
         IN [calculateStatistics(m2) EXCEPT !.result = "added"]

moveGame(m, gameId, fromCollection, toCollection) ==
    LET game == getGameFromCollection(m.collections, fromCollection, gameId)
    IN IF game = NoGame THEN [m EXCEPT !.result = "threw"]
       ELSE LET m1 == removeFromCollection(m, fromCollection, gameId)
                m2 == addToCollection(m1, toCollection, game)
            IN IF m2.result = "threw" THEN m2
               ELSE [m2 EXCEPT !.result = "true"]

\* rateGame: the first entry with the id in every collection is rated.
rateGame(m, gameId, rating) ==
    LET c == m.collections
        rated(list) ==
            LET k == findIndex(list, gameId, 1)
            IN IF k = 0 THEN list
               ELSE [list EXCEPT ![k].userRating = rating]
    IN [calculateStatistics(
          [m EXCEPT !.collections = [t \in DOMAIN c |-> rated(c[t])]])
        EXCEPT !.result = "rated"]

RECURSIVE mergeGames(_, _, _)
\* games.forEach: a game whose id the collection does not hold is pushed.
mergeGames(list, games, k) ==
    IF k > Len(games) THEN list
    ELSE mergeGames(IF findIndex(list, games[k].id, 1) = 0
                    THEN Append(list, games[k])
                    ELSE list,
                    games, k + 1)

\* Mutant: every imported game is pushed.
mergeCollections_pushesAll(c, imported) ==
    [t \in DOMAIN c \cup DOMAIN imported |->
        IF t \in DOMAIN imported
        THEN gamesIn(c, t) \o imported[t]
        ELSE c[t]]

\* The merge branch of importCollections.
mergeCollections(c, imported) ==
    [t \in DOMAIN c \cup DOMAIN imported |->
        IF t \in DOMAIN imported
        THEN mergeGames(gamesIn(c, t), imported[t], 1)
        ELSE c[t]]

\* What JSON.parse gives for an import file: an object with or without a
\* collections field, or a syntax error.
NoImport == [parsed |-> FALSE, hasCollections |-> FALSE, collections |-> <<>>]

Sum(f) ==
    LET RECURSIVE sumOver(_)
        sumOver(S) == IF S = {} THEN 0
                      ELSE LET t == CHOOSE x \in S : TRUE
                           IN Len(f[t]) + sumOver(S \ {t})
    IN sumOver(DOMAIN f)

\* importCollections after the parse, with options {merge, overwrite}.
importCollections(m, importData, merge, overwrite) ==
    IF ~importData.parsed \/ ~importData.hasCollections
    THEN [m EXCEPT !.result = [success |-> FALSE, imported |-> 0,
                               totalGames |-> 0]]
    ELSE LET c == importData.collections
             m1 == IF overwrite THEN [m EXCEPT !.collections = c]
                   ELSE IF merge
                   THEN [m EXCEPT !.collections = mergeCollections(@, c)]
                   ELSE m
         IN [calculateStatistics(m1) EXCEPT
               !.result = [success |-> TRUE,
                           imported |-> Cardinality(DOMAIN c),
                           totalGames |-> Sum(c)]]

Manager == [collections |-> collections, stats |-> stats, result |-> "none"]

CommitManager(m) ==
    /\ collections' = m.collections
    /\ stats' = m.stats

\* No call has been made yet; n counts the calls.
NoCall == [op |-> "none", n |-> 0]

InitCollections == Constructed /\ args = NoArgs /\ out = NoCall

AddToCollection(collectionType, id) ==
    /\ out.n < MaxOps
    /\ LET m == addToCollection(Manager, collectionType, Game(id))
       IN /\ CommitManager(m)
          /\ out' = [op |-> "addToCollection", n |-> out.n + 1,
                     type |-> collectionType, id |-> id, from |-> "",
                     result |-> m.result, before |-> collections]
    /\ UNCHANGED <<uiVars, cache, now, args, analyticsVars, searchVars,
                   serviceVars>>

RemoveFromCollection(collectionType, id) ==
    /\ out.n < MaxOps
    /\ LET m == removeFromCollection(Manager, collectionType, id)
       IN /\ CommitManager(m)
          /\ out' = [op |-> "removeFromCollection", n |-> out.n + 1,
                     type |-> collectionType, id |-> id, from |-> "",
                     result |-> m.result, before |-> collections]
    /\ UNCHANGED <<uiVars, cache, now, args, analyticsVars, searchVars,
                   serviceVars>>

MoveGame(id, fromCollection, toCollection) ==
    /\ out.n < MaxOps
    /\ LET m == moveGame(Manager, id, fromCollection, toCollection)
       IN /\ CommitManager(m)
          /\ out' = [op |-> "moveGame", n |-> out.n + 1,
                     type |-> toCollection, id |-> id,
                     from |-> fromCollection,
                     result |-> m.result, before |-> collections]
    /\ UNCHANGED <<uiVars, cache, now, args, analyticsVars, searchVars,
                   serviceVars>>

RateGame(id, rating) ==
    /\ out.n < MaxOps
    /\ LET m == rateGame(Manager, id, rating)
       IN /\ CommitManager(m)
          /\ out' = [op |-> "rateGame", n |-> out.n + 1,
                     type |-> "", id |-> id, from |-> "",
                     result |-> m.result, before |-> collections]
    /\ UNCHANGED <<uiVars, cache, now, args, analyticsVars, searchVars,
                   serviceVars>>

\* The files a user merges in: one collection with up to two games, which
\* may be the same game twice.
ImportFiles ==
    {[parsed |-> TRUE, hasCollections |-> TRUE,
      collections |-> [t \in {type} |-> games]] :
        type \in {"owned", "backlog"},
        games \in {<<Game(1)>>, <<Game(2), Game(2)>>, <<Game(1), Game(2)>>}}

ImportMerge(importData) ==
    /\ out.n < MaxOps
    /\ LET m == importCollections(Manager, importData, TRUE, FALSE)
       IN /\ CommitManager(m)
          /\ out' = [op |-> "importCollections", n |-> out.n + 1,
                     type |-> "merge", id |-> 0, from |-> "file",
                     result |-> IF m.result.success THEN "success"
                                ELSE "failure",
                     before |-> collections]
    /\ UNCHANGED <<uiVars, cache, now, args, analyticsVars, searchVars,
                   serviceVars>>

NextCollections ==
    \/ \E t \in CollectionTypes \cup {"invalid"}, id \in GameIds :
          AddToCollection(t, id)
    \/ \E t \in CollectionTypes, id \in GameIds : RemoveFromCollection(t, id)
    \/ \E id \in GameIds, t1 \in CollectionTypes,
          t2 \in CollectionTypes \cup {"invalid"} : MoveGame(id, t1, t2)
    \/ \E id \in GameIds, rating \in 1..MaxRating : RateGame(id, rating)
    \/ \E importData \in ImportFiles : ImportMerge(importData)

SpecCollections == InitCollections /\ [][NextCollections]_vars

\* The number of entries of a collection with the id.
Count(c, collectionType, id) ==
    Cardinality({k \in 1..Len(gamesIn(c, collectionType)) :
                    c[collectionType][k].id = id})

InCollection(c, collectionType, id) == Count(c, collectionType, id) > 0

\* C27: after addToCollection(T, game) has returned, the game is in T
\* exactly once; if T is completed or dropped it is in neither playing nor
\* backlog, and if T is playing it is not in backlog.
C27_AddRemovesFromRelated ==
    (out.op = "addToCollection" /\ out.result = "added") =>
        /\ Count(collections, out.type, out.id) = 1
        /\ out.type \in {"completed", "dropped"} =>
              /\ ~InCollection(collections, "playing", out.id)
              /\ ~InCollection(collections, "backlog", out.id)
        /\ out.type = "playing" =>
              ~InCollection(collections, "backlog", out.id)

\* A game that was in backlog and in completed has been added to
\* completed again.
C27_Witness ==
    /\ out.op = "addToCollection" /\ out.result = "added"
    /\ out.type = "completed"
    /\ InCollection(out.before, "backlog", out.id)
    /\ InCollection(out.before, "completed", out.id)

NoDuplicates(c) ==
    \A t \in DOMAIN c : \A k1, k2 \in 1..Len(c[t]) :
        c[t][k1].id = c[t][k2].id => k1 = k2

C30_MovedOutOfSource ==
    (out.op = "moveGame" /\ out.result = "true" /\ out.from # out.type) =>
        /\ InCollection(collections, out.type, out.id)
        /\ ~InCollection(collections, out.from, out.id)

\* C31: when moveGame or addToCollection has thrown, the collections (in
\* memory, and so the ones saveCollections last wrote) are those from before
\* the call.
C31_ThrowLeavesCollections ==
    (out.op \in {"moveGame", "addToCollection"} /\ out.result = "threw") =>
        collections = out.before

----------------------------------------------------------------------------
(* exportCollections as JSON and importCollections of the exported text.   *)

\* A JSON text is the sequence of its members: [t, v] is the member named t
\* with the number v; a key of the collections object is written as its
\* position in collectionTypes.

RECURSIVE stringifyGames(_, _)
\* JSON.stringify of an array of entries from position k on: a field that
\* is absent is not written.
stringifyGames(list, k) ==
    IF k > Len(list) THEN <<>>
    ELSE <<[t |-> "id", v |-> list[k].id]>>
         \o (IF list[k].userRating # 0
             THEN <<[t |-> "userRating", v |-> list[k].userRating]>>
             ELSE <<>>)
         \o stringifyGames(list, k + 1)

RECURSIVE stringifyCollections_skipsEmpty(_, _)
\* Mutant: a collection without games is not written.
stringifyCollections_skipsEmpty(c, k) ==
    IF k > Len(collectionTypes) THEN <<>>
    ELSE (IF collectionTypes[k] \in DOMAIN c /\ c[collectionTypes[k]] # <<>>
          THEN <<[t |-> "key", v |-> k]>>
               \o stringifyGames(c[collectionTypes[k]], 1)
          ELSE <<>>)
         \o stringifyCollections_skipsEmpty(c, k + 1)

RECURSIVE stringifyCollections(_, _)
\* JSON.stringify of the collections object from key k on.
stringifyCollections(c, k) ==
    IF k > Len(collectionTypes) THEN <<>>
    ELSE (IF collectionTypes[k] \in DOMAIN c
          THEN <<[t |-> "key", v |-> k]>>
               \o stringifyGames(c[collectionTypes[k]], 1)
          ELSE <<>>)
         \o stringifyCollections(c, k + 1)

\* JSON.stringify(exportData, null, 2)
stringify(exportData) ==
    <<[t |-> "totalGames", v |-> exportData.statistics.totalGames],
      [t |-> "collections", v |-> 0]>>
    \o stringifyCollections(exportData.collections, 1)

RECURSIVE parseMembers(_, _, _, _)
\* JSON.parse of the members of the collections object from position k on:
\* c is the object read so far and key the collection being read.
parseMembers(text, k, c, key) ==
    IF k > Len(text) THEN c
    ELSE LET member == text[k]
         IN CASE member.t = "key" ->
                   parseMembers(text, k + 1,
                       setCollection(c, collectionTypes[member.v], <<>>),
                       collectionTypes[member.v])
              [] member.t = "id" ->
                   parseMembers(text, k + 1,
                       [c EXCEPT ![key] = Append(@, Game(member.v))], key)
              [] member.t = "userRating" ->
                   parseMembers(text, k + 1,
                       [c EXCEPT ![key][Len(c[key])].userRating = member.v],
                       key)
              [] OTHER -> parseMembers(text, k + 1, c, key)

\* JSON.parse(data) of a text written by stringify.
parse(text) ==
    [parsed |-> TRUE,
     hasCollections |-> \E k \in 1..Len(text) : text[k].t = "collections",
     collections |-> parseMembers(text, 1, <<>>, "")]

\* exportCollections('json', selection): the collections named by the keys
\* of selection, all of them if none is given.
exportCollections(m, given, keys) ==
    LET c == m.collections
        exportData ==
            [statistics |-> m.stats,
             collections |-> IF given
                             THEN [t \in keys \cap DOMAIN c |-> c[t]]
                             ELSE c]
    IN [data |-> stringify(exportData), exported |-> exportData.collections]

\* The collections found in the store by init: two games, one of them
\* rated, in owned, completed and backlog.
StoredCollections ==
    {[t \in CollectionTypes |->
        CASE t = "owned" -> owned
          [] t = "completed" -> completed
          [] t = "backlog" -> backlog
          [] OTHER -> <<>>] :
        owned \in {<<>>, <<Game(1), [id |-> 2, userRating |-> 1]>>},
        completed \in {<<>>, <<[id |-> 2, userRating |-> 1]>>},
        backlog \in {<<>>, <<Game(1)>>}}

InitExport ==
    /\ Constructed
    /\ args = NoArgs
    /\ out \in {[op |-> "init", n |-> 0, before |-> c] :
                   c \in StoredCollections}

\* init: loadCollections and calculateStatistics.
LoadCollections ==
    /\ out.op = "init"
    /\ CommitManager(calculateStatistics(
                        [Manager EXCEPT !.collections = out.before]))
    /\ out' = NoCall
    /\ UNCHANGED <<uiVars, cache, now, args, analyticsVars, searchVars,
                   serviceVars>>

\* The user exports: the text is kept as a file.
ExportCollections(given, keys) ==
    /\ out.op # "init"
    /\ out.n < MaxOps
    /\ LET e == exportCollections(Manager, given, keys)
       IN /\ args' = [op |-> "file", text |-> e.data,
                      exported |-> e.exported]
          /\ out' = [op |-> "exportCollections", n |-> out.n + 1,
                     type |-> "json", id |-> 0, from |-> "",
                     result |-> "exported", before |-> collections]
    /\ UNCHANGED <<uiVars, cache, now, appVars>>

\* The user imports the exported file with {overwrite: true}.
ImportOverwrite ==
    /\ out.op # "init"
    /\ out.n < MaxOps
    /\ args.op = "file"
    /\ LET m == importCollections(Manager, parse(args.text), TRUE, TRUE)
       IN /\ CommitManager(m)
          /\ out' = [op |-> "importCollections", n |-> out.n + 1,
                     type |-> "overwrite", id |-> 0, from |-> "file",
                     result |-> IF m.result.success THEN "success"
                                ELSE "failure",
                     before |-> collections]
    /\ UNCHANGED <<uiVars, cache, now, args, analyticsVars, searchVars,
                   serviceVars>>

\* The user imports data that is not JSON, or JSON without a collections
\* field, with or without {overwrite: true}.
ImportWithoutCollections(importData, overwrite) ==
    /\ out.op # "init"
    /\ out.n < MaxOps
    /\ ~importData.parsed \/ ~importData.hasCollections
    /\ LET m == importCollections(Manager, importData, TRUE, overwrite)
       IN /\ CommitManager(m)
          /\ out' = [op |-> "importCollections", n |-> out.n + 1,
                     type |-> IF overwrite THEN "overwrite" ELSE "merge",
                     id |-> 0, from |-> "without collections",
                     result |-> IF m.result.success THEN "success"
                                ELSE "failure",
                     before |-> collections]
    /\ UNCHANGED <<uiVars, cache, now, args, analyticsVars, searchVars,
                   serviceVars>>

ChangeCollections ==
    /\ out.op # "init"
    /\ \/ \E t \in {"owned", "playing"}, id \in GameIds :
             AddToCollection(t, id)
       \/ \E t \in {"owned", "backlog"}, id \in GameIds :
             RemoveFromCollection(t, id)
       \/ \E id \in GameIds : RateGame(id, MaxRating)

NextExport ==
    \/ LoadCollections
    \/ ChangeCollections
    \/ \E given \in BOOLEAN :
          \E keys \in {{"owned", "wishlist"}} : ExportCollections(given, keys)
    \/ ImportOverwrite
    \/ \E importData \in {NoImport, parse(<<[t |-> "games", v |-> 1]>>)},
          overwrite \in BOOLEAN :
             ImportWithoutCollections(importData, overwrite)

SpecExport == InitExport /\ [][NextExport]_vars

\* C24: an import with overwrite of the text exportCollections wrote as
\* JSON succeeds and leaves exactly the exported collections, whatever was
\* changed in between; an import of data without a collections field
\* returns success: false and leaves the collections as they were.
C24_ExportImportRoundTrip ==
    out.op = "importCollections" =>
        /\ (out.type = "overwrite" /\ out.from = "file") =>
              /\ out.result = "success"
              /\ collections = args.exported
              /\ stats.totalGames = Cardinality(allGames(args.exported))
        /\ out.from = "without collections" =>
              /\ out.result = "failure"
              /\ collections = out.before

\* All collections, with a rated game and an empty collection among them,
\* were exported, then changed, and restored by the import.
C24_Witness ==
    /\ out.op = "importCollections"
    /\ out.type = "overwrite" /\ out.from = "file"
    /\ collections # out.before
    /\ DOMAIN collections = CollectionTypes
    /\ \E t \in DOMAIN collections : collections[t] = <<>>
    /\ \E t \in DOMAIN collections : \E k \in 1..Len(collections[t]) :
          collections[t][k].userRating # 0

----------------------------------------------------------------------------
(* SearchManager: the debounced input handler and its searches.            *)

minQueryLength == 2

RECURSIVE trimStart(_)
trimStart(str) ==
    IF Len(str) > 0 /\ str[1] = " " THEN trimStart(Tail(str)) ELSE str

RECURSIVE trimEnd(_)
trimEnd(str) ==
    IF Len(str) > 0 /\ str[Len(str)] = " "
    THEN trimEnd(SubSeq(str, 1, Len(str) - 1))
    ELSE str

\* String.prototype.trim
trim(str) == trimEnd(trimStart(str))

\* What the user may have typed into #search-input.
InputValues ==
    {<<>>, <<"a">>, <<"a", "b">>, <<"a", "b", " ">>, <<"a", "b", "c">>,
     <<"z", "z">>}

\* results.games of searchGames(query, {pageSize: 20}): the API holds two
\* games whose names start with "ab" and none with "zz".
gamesFor(query) ==
    LET abc == [slug |-> <<"a", "b", "c", "-">>, name |-> <<"a", "b", "c">>]
        abd == [slug |-> <<"a", "b", "d", "-">>, name |-> <<"a", "b", "d">>]
    IN CASE query = <<"a", "b">> -> <<abc, abd>>
         [] query = <<"a", "b", "c">> -> <<abc>>
         [] OTHER -> <<>>

\* The SearchManager state a handler reads and writes.
Search ==
    [currentQuery |-> currentQuery, searchResults |-> searchResults,
     resultsContainer |-> resultsContainer, searches |-> searches]

CommitSearch(m) ==
    /\ currentQuery' = m.currentQuery
    /\ searchResults' = m.searchResults
    /\ resultsContainer' = m.resultsContainer
    /\ searches' = m.searches

\* showSearchHistory: the recent searches, or the empty state.
showSearchHistory(m) ==
    [m EXCEPT !.resultsContainer =
        [kind |-> "history", query |-> <<>>, games |-> <<>>]]

clearResults(m) ==
    [m EXCEPT !.resultsContainer =
                 [kind |-> "cleared", query |-> <<>>, games |-> <<>>],
              !.searchResults = <<>>]

showLoadingState(m) ==
    [m EXCEPT !.resultsContainer =
        [kind |-> "loading", query |-> <<>>, games |-> <<>>]]

showErrorState(m) ==
    [m EXCEPT !.resultsContainer =
        [kind |-> "error", query |-> <<>>, games |-> <<>>]]

\* displayResults(games): the list, or "No games found"; query is the query
\* the games were searched for.
displayResults(m, games, query) ==
    [m EXCEPT !.resultsContainer =
        IF Len(games) = 0
        THEN [kind |-> "noresults", query |-> query, games |-> <<>>]
        ELSE [kind |-> "results", query |-> query, games |-> games]]

\* handleSearchInput after the await: the games are stored and displayed.
searchResolved(m, k) ==
    LET query == m.searches[k].query
        m1 == [m EXCEPT !.searches[k].status = "ok",
                        !.searchResults = gamesFor(query)]
    IN displayResults(m1, m1.searchResults, query)

\* handleSearchInput, catch: the error state is shown.
searchRejected(m, k) ==
    showErrorState([m EXCEPT !.searches[k].status = "failed"])

\* handleSearchInput up to the await.
handleSearchInput(m, value) ==
    LET query == trim(value)
        m1 == [m EXCEPT !.currentQuery = query]
    IN IF Len(query) = 0 THEN showSearchHistory(m1)
       ELSE IF Len(query) < minQueryLength THEN clearResults(m1)
       ELSE [showLoadingState(m1) EXCEPT
               !.searches = Append(@, [query |-> query, status |-> "pending"])]

\* An input event: the debounced handler restarts its timer.
Input(value) ==
    /\ timeout' = [set |-> TRUE, value |-> value]
    /\ UNCHANGED <<currentQuery, searchResults, resultsContainer, searches>>
    /\ UNCHANGED <<uiVars, cache, now, args, out, analyticsVars,
                   collectionVars, serviceVars>>

\* The timer of the debounced handler fires: handleSearchInput runs with
\* the value of the input.
TimerFires ==
    /\ timeout.set
    /\ Len(trim(timeout.value)) >= minQueryLength
          => Len(searches) < MaxSearches
    /\ timeout' = NoTimeout
    /\ CommitSearch(handleSearchInput(Search, timeout.value))
    /\ UNCHANGED <<uiVars, cache, now, args, out, analyticsVars,
                   collectionVars, serviceVars>>

\* A search of handleSearchInput is answered with its games.
SearchResolves(k) ==
    /\ k \in 1..Len(searches)
    /\ searches[k].status = "pending"
    /\ CommitSearch(searchResolved(Search, k))
    /\ UNCHANGED timeout
    /\ UNCHANGED <<uiVars, cache, now, args, out, analyticsVars,
                   collectionVars, serviceVars>>

\* A search of handleSearchInput fails.
SearchRejects(k) ==
    /\ k \in 1..Len(searches)
    /\ searches[k].status = "pending"
    /\ CommitSearch(searchRejected(Search, k))
    /\ UNCHANGED timeout
    /\ UNCHANGED <<uiVars, cache, now, args, out, analyticsVars,
                   collectionVars, serviceVars>>

NextSearch ==
    \/ \E value \in InputValues : Input(value)
    \/ TimerFires
    \/ \E k \in 1..MaxSearches : SearchResolves(k)
    \/ \E k \in 1..MaxSearches : SearchRejects(k)

SpecSearch == Init /\ [][NextSearch]_vars

\* No timer is pending and no search is in flight.
SearchesCompleted ==
    /\ ~timeout.set
    /\ \A k \in 1..Len(searches) : searches[k].status # "pending"

\* C25: once no timer is pending and every search is answered, what the
\* search modal shows and searchResults holds are the results of the query
\* entered last, where every search was answered with games.
C25_LatestQueryShown ==
    (/\ SearchesCompleted
     /\ Len(currentQuery) >= minQueryLength
     /\ \A k \in 1..Len(searches) : searches[k].status = "ok") =>
        /\ resultsContainer.query = currentQuery
        /\ searchResults = gamesFor(currentQuery)
        /\ resultsContainer.games = gamesFor(currentQuery)

----------------------------------------------------------------------------
(* NotificationManager: show, displayNotification, remove, processQueue,   *)
(* clearAll and the listeners that call remove.                            *)

\* A notification as createNotification builds it: ids are unique, and are
\* numbered here in the order of the show calls.
Notification(id, persistent) == [id |-> id, persistent |-> persistent]

\* this.notifications.get(notificationId) is defined.
isActive(list, notificationId) ==
    \E k \in 1..Len(list) : list[k].id = notificationId

RECURSIVE displayNotification(_, _, _), processQueue(_)

\* displayNotification: the notification joins the active ones, its
\* auto-remove timer is set unless it is persistent, and the queue is
\* processed.  from records whether show or processQueue displayed it.
displayNotification(nm, notification, from) ==
    processQueue(
      [nm EXCEPT
         !.notifications = Append(@, notification),
         !.displayed = Append(@, [id |-> notification.id, from |-> from]),
         !.autoTimers = IF notification.persistent THEN @
                        ELSE @ \cup {notification.id}])

\* Mutant: the notification queued last is taken.
processQueue_takesLast(nm) ==
    IF Len(nm.queue) > 0 /\ Len(nm.notifications) < maxNotifications
    THEN displayNotification(
           [nm EXCEPT !.queue = SubSeq(@, 1, Len(@) - 1)],
           nm.queue[Len(nm.queue)], "queue")
    ELSE nm

processQueue(nm) ==
    IF Len(nm.queue) > 0 /\ Len(nm.notifications) < maxNotifications
    THEN displayNotification([nm EXCEPT !.queue = Tail(@)],
                             Head(nm.queue), "queue")
    ELSE nm

\* Mutant: the notification is displayed however many are active.
show_alwaysDisplays(nm, notification) ==
    displayNotification(nm, notification, "show")

show(nm, notification) ==
    IF Len(nm.notifications) >= maxNotifications
    THEN [nm EXCEPT !.queue = Append(@, notification)]
    ELSE displayNotification(nm, notification, "show")

\* remove: the exit animation starts and a timer is set; the notification
\* stays in this.notifications until the timer fires.
remove(nm, notificationId) ==
    IF ~isActive(nm.notifications, notificationId) THEN nm
    ELSE [nm EXCEPT !.removals = Append(@, notificationId)]

\* The callback remove hands to setTimeout, for the timer set first.
removeTimeout(nm) ==
    LET notificationId == Head(nm.removals)
    IN processQueue(
         [nm EXCEPT
            !.removals = Tail(@),
            !.notifications =
                SelectSeq(@, LAMBDA n : n.id # notificationId),
            !.closed[notificationId] = @ + 1])

clearAll(nm) == [nm EXCEPT !.notifications = <<>>, !.queue = <<>>]

\* The document's keydown listener on Escape.
escapeShortcut(nm) ==
    IF Len(nm.notifications) > 0
    THEN remove(nm, nm.notifications[Len(nm.notifications)].id)
    ELSE nm

NotificationManager ==
    [notifications |-> notifications, queue |-> queue,
     autoTimers |-> autoTimers, removals |-> removals, closed |-> closed,
     displayed |-> displayed]

CommitNotifications(nm) ==
    /\ notifications' = nm.notifications
    /\ queue' = nm.queue
    /\ autoTimers' = nm.autoTimers
    /\ removals' = nm.removals
    /\ closed' = nm.closed
    /\ displayed' = nm.displayed

\* Some part of the application shows a notification.
Show(persistent) ==
    /\ shown < MaxShown
    /\ shown' = shown + 1
    /\ CommitNotifications(
         show(NotificationManager, Notification(shown + 1, persistent)))
    /\ UNCHANGED <<uiVars, cache, now, args, out, analyticsVars,
                   collectionVars, searchVars, storageVars, workerVars>>

\* Some part of the application calls remove with an id show returned.
Remove(notificationId) ==
    /\ Len(removals) < MaxPending
    /\ CommitNotifications(remove(NotificationManager, notificationId))
    /\ UNCHANGED <<uiVars, cache, now, args, out, analyticsVars,
                   collectionVars, searchVars, storageVars, workerVars,
                   shown>>

\* A click on the close button of a notification in the container.
CloseClick(notificationId) ==
    /\ isActive(notifications, notificationId)
    /\ Len(removals) < MaxPending
    /\ CommitNotifications(remove(NotificationManager, notificationId))
    /\ UNCHANGED <<uiVars, cache, now, args, out, analyticsVars,
                   collectionVars, searchVars, storageVars, workerVars,
                   shown>>

\* Escape is pressed with the focus outside the notifications.
EscapeKey ==
    /\ Len(notifications) > 0
    /\ Len(removals) < MaxPending
    /\ CommitNotifications(escapeShortcut(NotificationManager))
    /\ UNCHANGED <<uiVars, cache, now, args, out, analyticsVars,
                   collectionVars, searchVars, storageVars, workerVars,
                   shown>>

\* Escape is pressed with the focus inside a notification: the keydown
\* listener of the element runs, and the event bubbles to the document.
EscapeInside(notificationId) ==
    /\ isActive(notifications, notificationId)
    /\ Len(removals) + 1 < MaxPending
    /\ CommitNotifications(
         escapeShortcut(remove(NotificationManager, notificationId)))
    /\ UNCHANGED <<uiVars, cache, now, args, out, analyticsVars,
                   collectionVars, searchVars, storageVars, workerVars,
                   shown>>

\* The auto-remove timer of a displayed notification fires.
AutoTimerFires(notificationId) ==
    /\ notificationId \in autoTimers
    /\ CommitNotifications(
         remove([NotificationManager EXCEPT
                   !.autoTimers = @ \ {notificationId}],
                notificationId))
    /\ UNCHANGED <<uiVars, cache, now, args, out, analyticsVars,
                   collectionVars, searchVars, storageVars, workerVars,
                   shown>>

\* The timer remove set first fires, animationDuration after the call.
RemovalFires ==
    /\ Len(removals) > 0
    /\ CommitNotifications(removeTimeout(NotificationManager))
    /\ UNCHANGED <<uiVars, cache, now, args, out, analyticsVars,
                   collectionVars, searchVars, storageVars, workerVars,
                   shown>>

\* clearAll, called directly or by Ctrl+Shift+N.
ClearAll ==
    /\ CommitNotifications(clearAll(NotificationManager))
    /\ UNCHANGED <<uiVars, cache, now, args, out, analyticsVars,
                   collectionVars, searchVars, storageVars, workerVars,
                   shown>>

NextNotifications ==
    \/ \E persistent \in BOOLEAN : Show(persistent)
    \/ \E id \in 1..MaxShown : Remove(id)
    \/ \E id \in 1..MaxShown : CloseClick(id)
    \/ EscapeKey
    \/ \E id \in 1..MaxShown : EscapeInside(id)
    \/ \E id \in 1..MaxShown : AutoTimerFires(id)
    \/ RemovalFires
    \/ ClearAll

SpecNotifications == Init /\ [][NextNotifications]_vars

\* C32: never more than maxNotifications notifications are active, the
\* queue holds something only while that many are active, and a show call
\* made while that many are active appends its notification to the queue
\* and displays nothing.
C32_ActiveBoundedAndQueued ==
    /\ [](/\ Len(notifications) <= maxNotifications
          /\ Len(queue) > 0 => Len(notifications) = maxNotifications)
    /\ [][(shown' = shown + 1 /\ Len(notifications) = maxNotifications) =>
             /\ Len(queue') = Len(queue) + 1
             /\ queue'[Len(queue')].id = shown'
             /\ SubSeq(queue', 1, Len(queue)) = queue
             /\ notifications' = notifications
             /\ displayed' = displayed]_vars

\* A notification waits in the queue behind a full active set of which one
\* member was displayed from the queue, after an earlier one was removed.
C32_Witness ==
    /\ Len(queue) > 0
    /\ Len(notifications) = maxNotifications
    /\ \E k \in 1..Len(displayed) :
          /\ displayed[k].from = "queue"
          /\ isActive(notifications, displayed[k].id)
    /\ \E id \in 1..MaxShown : closed[id] > 0

\* C34: onClose is called at most once for a notification.
C34_OnCloseAtMostOnce == \A id \in 1..MaxShown : closed[id] <= 1

----------------------------------------------------------------------------
(* The notifications with timers that fire, every active notification      *)
(* removed in the end, and no call of clearAll.                            *)

NextNotificationsFair ==
    \/ \E persistent \in BOOLEAN : Show(persistent)
    \/ \E id \in 1..MaxShown : Remove(id)
    \/ \E id \in 1..MaxShown : CloseClick(id)
    \/ EscapeKey
    \/ \E id \in 1..MaxShown : EscapeInside(id)
    \/ \E id \in 1..MaxShown : AutoTimerFires(id)
    \/ RemovalFires

\* A timer that is set fires; and, the hypothesis of the claim, no
\* notification stays active for ever.
SpecNotificationsFair ==
    /\ Init /\ [][NextNotificationsFair]_vars
    /\ WF_removals(RemovalFires)
    /\ \A id \in 1..MaxShown : WF_autoTimers(AutoTimerFires(id))
    /\ \A id \in 1..MaxShown : []<>(~isActive(notifications, id))

isQueued(notificationId) ==
    \E k \in 1..Len(queue) : queue[k].id = notificationId

wasDisplayed(notificationId) ==
    \E k \in 1..Len(displayed) : displayed[k].id = notificationId

\* C33: the notifications displayed from the queue are displayed in the
\* order of their show calls, and a notification in the queue is displayed
\* in the end.
C33_QueueIsFifoAndDrains ==
    /\ [](\A i, j \in 1..Len(displayed) :
            (i < j /\ displayed[i].from = "queue"
                   /\ displayed[j].from = "queue") =>
                displayed[i].id < displayed[j].id)
    /\ \A id \in 1..MaxShown : isQueued(id) ~> wasDisplayed(id)

\* Two notifications or more have been displayed from the queue, the one
\* shown last among them.
C33_Witness ==
    /\ Cardinality({k \in 1..Len(displayed) : displayed[k].from = "queue"})
          >= 2
    /\ \E k \in 1..Len(displayed) :
          /\ displayed[k].from = "queue"
          /\ displayed[k].id = MaxShown

----------------------------------------------------------------------------
(* StorageManager.set, get and remove over localStorage, with the options  *)
(* useIndexedDB, compress and encrypt left at their defaults.              *)

\* JavaScript values: null, a number, a boolean.
Null == [kind |-> "null", v |-> 0]

Num(n) == [kind |-> "number", v |-> n]

Bool(b) == [kind |-> "boolean", v |-> IF b THEN 1 ELSE 0]

\* The value is truthy: null and 0 are not.
truthy(x) ==
    CASE x.kind = "null" -> FALSE
      [] x.kind = "number" -> x.v # 0
      [] OTHER -> x.v = 1

\* JSON.stringify(data): the members of the object in the order of its
\* fields, null written as null.
stringifyData(data) ==
    <<[t |-> "value", kind |-> data.value.kind, v |-> data.value.v],
      [t |-> "timestamp", kind |-> "number", v |-> data.timestamp],
      [t |-> "ttl", kind |-> data.ttl.kind, v |-> data.ttl.v]>>

\* The value of the member named t of a JSON text.
memberOf(text, t) ==
    LET k == CHOOSE k \in 1..Len(text) : text[k].t = t
    IN [kind |-> text[k].kind, v |-> text[k].v]

\* JSON.parse(stored)
parseData(text) ==
    [value |-> memberOf(text, "value"),
     timestamp |-> memberOf(text, "timestamp").v,
     ttl |-> memberOf(text, "ttl")]

\* localStorage.setItem(key, text)
setItem(ls, key, text) ==
    [k \in DOMAIN ls \cup {key} |-> IF k = key THEN text ELSE ls[k]]

\* localStorage.removeItem(key)
removeItem(ls, key) == [k \in DOMAIN ls \ {key} |-> ls[k]]

\* set: quotaOk is whether localStorage.setItem accepts the write; when it
\* throws, set returns false.
storageSet(ls, key, value, ttl, t, quotaOk) ==
    LET data == [value |-> value, timestamp |-> t, ttl |-> ttl]
    IN IF quotaOk
       THEN [storage |-> setItem(ls, key, stringifyData(data)),
             result |-> Bool(TRUE)]
       ELSE [storage |-> ls, result |-> Bool(FALSE)]

storageRemove(ls, key) ==
    [storage |-> removeItem(ls, key), result |-> Bool(TRUE)]

\* get at time t.
storageGet(ls, key, defaultValue, t) ==
    IF key \notin DOMAIN ls
    THEN [storage |-> ls, result |-> defaultValue]
    ELSE LET data == parseData(ls[key])
         IN IF truthy(data.ttl) /\ t - data.timestamp > data.ttl.v
            THEN [storage |-> storageRemove(ls, key).storage,
                  result |-> defaultValue]
            ELSE [storage |-> ls, result |-> data.value]

StorageKeys == {"psp_cache_data"}

\* The ttl option: absent (null by default) or a number of milliseconds.
Ttls == {Null} \cup {Num(n) : n \in 0..MaxTtl}

\* args.written[key] is the last set of the key that returned true, if no
\* remove of the key followed it.
NotWritten == [set |-> FALSE, value |-> Null, ttl |-> Null, at |-> 0]

InitStorage ==
    /\ Constructed
    /\ args = [op |-> "storage", waits |-> 0,
               written |-> [k \in StorageKeys |-> NotWritten]]
    /\ out = [op |-> "none", key |-> "", result |-> Null, at |-> 0]

StorageSet(key, value, ttl, quotaOk) ==
    /\ LET r == storageSet(localStorage, key, value, ttl, now, quotaOk)
       IN /\ localStorage' = r.storage
          /\ out' = [op |-> "set", key |-> key, result |-> r.result,
                     at |-> now]
          /\ args' = IF truthy(r.result)
                     THEN [args EXCEPT !.written[key] =
                             [set |-> TRUE, value |-> value, ttl |-> ttl,
                              at |-> now]]
                     ELSE args
    /\ UNCHANGED now
    /\ UNCHANGED <<uiVars, cache, analyticsVars, collectionVars, searchVars,
                   notificationVars, workerVars>>

StorageGet(key) ==
    /\ LET r == storageGet(localStorage, key, Null, now)
       IN /\ localStorage' = r.storage
          /\ out' = [op |-> "get", key |-> key, result |-> r.result,
                     at |-> now]
    /\ UNCHANGED <<now, args>>
    /\ UNCHANGED <<uiVars, cache, analyticsVars, collectionVars, searchVars,
                   notificationVars, workerVars>>

StorageRemove(key) ==
    /\ LET r == storageRemove(localStorage, key)
       IN /\ localStorage' = r.storage
          /\ out' = [op |-> "remove", key |-> key, result |-> r.result,
                     at |-> now]
    /\ args' = [args EXCEPT !.written[key] = NotWritten]
    /\ UNCHANGED now
    /\ UNCHANGED <<uiVars, cache, analyticsVars, collectionVars, searchVars,
                   notificationVars, workerVars>>

\* Time passes.
Wait(d) ==
    /\ args.waits < MaxWaits
    /\ now' = now + d
    /\ args' = [args EXCEPT !.waits = @ + 1]
    /\ UNCHANGED <<localStorage, out>>
    /\ UNCHANGED <<uiVars, cache, analyticsVars, collectionVars, searchVars,
                   notificationVars, workerVars>>

NextStorage ==
    \/ \E key \in StorageKeys, value \in 1..MaxValue, ttl \in Ttls,
          quotaOk \in BOOLEAN : StorageSet(key, Num(value), ttl, quotaOk)
    \/ \E key \in StorageKeys : StorageGet(key)
    \/ \E key \in StorageKeys : StorageRemove(key)
    \/ \E d \in 1..2 : Wait(d)

SpecStorage == InitStorage /\ [][NextStorage]_vars

\* C36: get(key) returns the value of the last set of the key while the
\* entry is not older than its ttl, or has none; it returns the default and
\* leaves no entry once the entry is older than its ttl, or when the key was
\* removed or never set.
C36_GetAfterSet ==
    out.op = "get" =>
        LET w == args.written[out.key]
        IN IF w.set /\ (w.ttl = Null \/ out.at - w.at <= w.ttl.v)
           THEN out.result = w.value
           ELSE /\ out.result = Null
                /\ out.key \notin DOMAIN localStorage

----------------------------------------------------------------------------
(* The service worker's fetch handler for same-origin requests:            *)
(* handleStaticAssets and updateCacheInBackground.                         *)

\* The same-origin URLs requested: the cached assets, the offline page and
\* a page that install does not cache.
Urls == STATIC_ASSETS \cup {"/offline.html", "/game.html"}

Requests ==
    [url : Urls, destination : {"document", "script"}]

\* Responses: one from the cache, one from the network, the page that
\* createOfflinePage generates, the 503 of the catch block; and undefined,
\* which is no response.
cachedResponse(url) == [kind |-> "cached", url |-> url, ok |-> TRUE]

networkResponse(url, ok) == [kind |-> "network", url |-> url, ok |-> ok]

createOfflinePage == [kind |-> "generated", url |-> "", ok |-> TRUE]

Offline503 == [kind |-> "503 Offline", url |-> "", ok |-> FALSE]

undefined == [kind |-> "undefined", url |-> "", ok |-> FALSE]

\* await caches.match(url): the cached response, or undefined.
cachesMatch(c, url) == IF url \in c THEN cachedResponse(url) ELSE undefined

\* caches.match('/offline.html') || new Response(createOfflinePage(), ...):
\* caches.match returns a promise, which is an object and so truthy, and
\* the function returns what that promise resolves to.
offlineFallback(c) == cachesMatch(c, "/offline.html")

\* The catch block of handleStaticAssets.
staticAssetFailed(c, request) ==
    IF request.destination = "document" THEN offlineFallback(c)
    ELSE Offline503

\* No fetch event handled yet; n counts the events.
NoFetch ==
    [op |-> "none", n |-> 0, request |-> [url |-> "", destination |-> ""],
     response |-> undefined, network |-> "none", offlineCached |-> FALSE]

InitWorker == Constructed /\ args = NoArgs /\ out = NoFetch

\* A fetch event for a same-origin request: handleStaticAssets up to the
\* response from the cache, or to its await of fetch.  A cached response is
\* returned with the fetch of updateCacheInBackground in flight.
FetchEvent(request) ==
    /\ out.n < MaxFetches
    /\ LET cached == cachesMatch(caches, request.url)
       IN IF cached # undefined
          THEN /\ fetches' = fetches \cup
                     {[id |-> out.n + 1, request |-> request,
                       for |-> "updateCacheInBackground"]}
               /\ out' = [op |-> "respondWith", n |-> out.n + 1,
                          request |-> request, response |-> cached,
                          network |-> "pending",
                          offlineCached |-> "/offline.html" \in caches]
          ELSE /\ fetches' = fetches \cup
                     {[id |-> out.n + 1, request |-> request,
                       for |-> "handleStaticAssets"]}
               /\ out' = [out EXCEPT !.op = "awaiting", !.n = @ + 1]
    /\ UNCHANGED <<caches, args>>
    /\ UNCHANGED <<uiVars, cache, now, analyticsVars, collectionVars,
                   searchVars, notificationVars, storageVars>>

\* fetch resolves: a response that is ok is put in the cache, and
\* handleStaticAssets returns the response whatever its status.
NetworkResponds(id, ok) ==
    /\ \E f \in fetches :
          /\ f.id = id
          /\ fetches' = fetches \ {f}
          /\ caches' = IF ok THEN caches \cup {f.request.url} ELSE caches
          /\ out' = IF f.for = "handleStaticAssets"
                    THEN [op |-> "respondWith", n |-> out.n,
                          request |-> f.request,
                          response |-> networkResponse(f.request.url, ok),
                          network |-> "responded",
                          offlineCached |-> "/offline.html" \in caches]
                    ELSE out
    /\ UNCHANGED args
    /\ UNCHANGED <<uiVars, cache, now, analyticsVars, collectionVars,
                   searchVars, notificationVars, storageVars>>

\* fetch rejects: handleStaticAssets returns its fallback, and
\* updateCacheInBackground only logs.
NetworkFails(id) ==
    /\ \E f \in fetches :
          /\ f.id = id
          /\ fetches' = fetches \ {f}
          /\ out' = IF f.for = "handleStaticAssets"
                    THEN [op |-> "respondWith", n |-> out.n,
                          request |-> f.request,
                          response |-> staticAssetFailed(caches, f.request),
                          network |-> "failed",
                          offlineCached |-> "/offline.html" \in caches]
                    ELSE out
    /\ UNCHANGED <<caches, args>>
    /\ UNCHANGED <<uiVars, cache, now, analyticsVars, collectionVars,
                   searchVars, notificationVars, storageVars>>

NextWorker ==
    \/ \E request \in Requests : FetchEvent(request)
    \/ \E id \in 1..MaxFetches, ok \in BOOLEAN : NetworkResponds(id, ok)
    \/ \E id \in 1..MaxFetches : NetworkFails(id)

SpecWorker == InitWorker /\ [][NextWorker]_vars

\* C37: what handleStaticAssets hands to respondWith is a response; when
\* nothing was cached and fetch failed it is, for a document, the cached
\* /offline.html or else the generated offline page, and for anything else
\* the 503 response; and a cached asset is answered from the cache with the
\* network still to answer.
C37_AlwaysAResponse ==
    out.op = "respondWith" =>
        /\ out.response # undefined
        /\ out.network = "failed" =>
              out.response =
                 IF out.request.destination # "document" THEN Offline503
                 ELSE IF out.offlineCached
                      THEN cachedResponse("/offline.html")
                      ELSE createOfflinePage
        /\ out.network = "pending" =>
              out.response = cachedResponse(out.request.url)

====
